---- MODULE Spec2Model ----
(***************************************************************************)
(* A model of the rmscene TypeScript core: the CRDT sequence and its       *)
(* topological sort (crdt-sequence.ts), the scene tree builder             *)
(* (scene-tree.ts) and the tagged block reader (tagged-block-common.ts,    *)
(* tagged-block-reader.ts, scene-stream.ts), the tagged block writer        *)
(* (tagged-block-writer.ts) and the expansion of text items (rmc text.ts). *)
(*                                                                         *)
(* Each subsystem has its own specification (TopoSpec, TreeSpec,           *)
(* ReaderSpec, CallSpec, SeqSpec, PairSpec, DecodeSpec, WriterSpec,        *)
(* ExpandSpec); the variables of the other subsystems are parked at a      *)
(* constant value while one subsystem runs.                                *)
(***************************************************************************)
EXTENDS Integers, Sequences, FiniteSets, TLC

VARIABLES
    \* toposortItems: its argument, its locals and its outcome
    items,      \* the array passed to toposortItems (Array.from(_items.values()))
    data,       \* the Map "key comes after deps", in insertion order
    result,     \* the CrdtIds emitted so far
    layer,      \* the CrdtIds emitted by the last iteration of the layer loop
    passes,     \* how many times the body of while (true) has run
    tpc,        \* "build" | "loop" | "done" | "error" | "idle"
    \* buildTree: the SceneTree it fills and its place in the block iterable
    nodes,      \* SceneTree._nodes: Map from crdtIdToString(id) to Group
    rootText,   \* SceneTree.rootText
    lastBlock,  \* the block the last pass of the for loop was given
    nblocks,    \* how many blocks the loop has taken from the iterable
    bstatus,    \* "running" | "done" | "error" | "idle"
    \* readBlocks: the TaggedBlockReader it drives and what it has yielded
    buffer,                \* DataStream.buffer, the bytes of the file
    position,              \* DataStream._position
    currentBlock,          \* TaggedBlockReader.currentBlock
    warnedAboutExtraData,  \* TaggedBlockReader._warnedAboutExtraData
    warnings,              \* how many times console.warn has been called
    yielded,               \* the blocks the generator has yielded
    rstatus,    \* "start" | "reading" | "done" | "error" | "idle"
    \* single calls on a DataStream or TaggedBlockReader (over buffer, position,
    \* currentBlock, warnedAboutExtraData and warnings above)
    call,       \* the last call: its name, arguments, outcome, reader before it
    written,    \* the value the last write call was given
    ncalls,     \* how many calls have been made
    \* calls of add on one CrdtSequence (recorded in call, counted in ncalls)
    seqItems,   \* CrdtSequence._items: Map from crdtIdToString(itemId) to item
    \* two readers stepped in turn
    readers,    \* two TaggedBlockReaders: of each its DataStream, its fields, what it has yielded
    \* the writer
    wstreams,   \* the DataStreams the writer has made, by the bytes of each
    wdata,      \* TaggedBlockWriter.data: the index of the stream written to
    inBlock,    \* TaggedBlockWriter._inBlock
    ends,       \* the closures startBlock and startSubblock have returned
    wlog        \* what was done with the writer, in order

topoVars == <<items, data, result, layer, passes, tpc>>

treeVars == <<nodes, rootText, lastBlock, nblocks, bstatus>>

readerVars ==
    <<buffer, position, currentBlock, warnedAboutExtraData, warnings, yielded, rstatus>>

callVars == <<call, written, ncalls>>

seqVars == <<seqItems>>

pairVars == <<readers>>

writerVars == <<wstreams, wdata, inBlock, ends, wlog>>

vars == <<items, data, result, layer, passes, tpc,
          nodes, rootText, lastBlock, nblocks, bstatus,
          buffer, position, currentBlock, warnedAboutExtraData, warnings, yielded,
          rstatus, call, written, ncalls,
          seqItems,
          readers,
          wstreams, wdata, inBlock, ends, wlog>>

\* What a step of one subsystem leaves alone
notTopoVars == <<treeVars, readerVars, callVars, seqVars, pairVars, writerVars>>

notTreeVars == <<topoVars, readerVars, callVars, seqVars, pairVars, writerVars>>

notReaderVars == <<topoVars, treeVars, callVars, seqVars, pairVars, writerVars>>

notCallVars == <<topoVars, treeVars, yielded, rstatus, seqVars, pairVars, writerVars>>

(***************************************************************************)
(* Bounds.                                                                 *)
(***************************************************************************)
\* Longest item array handed to toposortItems
MaxItems == 3

\* Longest block sequence handed to buildTree
MaxBlocks == 4

\* Most block frames in a file handed to readBlocks
MaxFrames == 2

\* The number of calls made on one stream
MaxCalls == 2

\* The number of calls of add made on one CrdtSequence
MaxAdds == 3

(***************************************************************************)
(* CrdtId (tagged-block-common.ts)                                         *)
(***************************************************************************)
createCrdtId(p1, p2) == [part1 |-> p1, part2 |-> p2]

crdtIdEquals(a, b) == a.part1 = b.part1 /\ a.part2 = b.part2

crdtIdCompare(a, b) ==
    IF a.part1 # b.part1 THEN (IF a.part1 < b.part1 THEN -1 ELSE 1)
    ELSE IF a.part2 # b.part2 THEN (IF a.part2 < b.part2 THEN -1 ELSE 1)
    ELSE 0

\* The decimal digits of n as character codes ('0' is 48): what a template
\* literal does with a number.
RECURSIVE Digits(_)
Digits(n) ==
    IF n < 10 THEN <<48 + n>>
    ELSE Digits(n \div 10) \o <<48 + (n % 10)>>

\* `CrdtId(${part1}, ${part2})` as a sequence of UTF-16 code units
crdtIdToString(id) ==
    <<67, 114, 100, 116, 73, 100, 40>> \o Digits(id.part1)
        \o <<44, 32>> \o Digits(id.part2) \o <<41>>

(***************************************************************************)
(* crdt-sequence.ts                                                        *)
(***************************************************************************)
END_MARKER == createCrdtId(0, 0)

\* The sentinel keys '__start' and '__end' of toposortItems
StartKey == <<95, 95, 115, 116, 97, 114, 116>>
EndKey == <<95, 95, 101, 110, 100>>

createCrdtSequenceItem(itemId, leftId, rightId, deletedLength, value) ==
    [itemId |-> itemId, leftId |-> leftId, rightId |-> rightId,
     deletedLength |-> deletedLength, value |-> value]

\* A Map<string, V> is a sequence of [k, v] entries in insertion order.
MapHas(m, k) == \E i \in 1..Len(m) : m[i].k = k

MapIndex(m, k) == CHOOSE i \in 1..Len(m) : m[i].k = k

MapGet(m, k) == m[MapIndex(m, k)].v

\* Map.set: an existing key keeps its place and takes the new value
MapSet(m, k, v) ==
    IF MapHas(m, k)
    THEN [m EXCEPT ![MapIndex(m, k)] = [k |-> k, v |-> v]]
    ELSE Append(m, [k |-> k, v |-> v])

\* itemDict of toposortItems: item key -> item, later duplicates overwrite
RECURSIVE ItemDict(_)
ItemDict(its) ==
    IF its = <<>> THEN <<>>
    ELSE LET last == its[Len(its)]
         IN  MapSet(ItemDict(SubSeq(its, 1, Len(its) - 1)),
                    crdtIdToString(last.itemId), last)

getSideId(itemDict, item, side) ==
    LET sideId == IF side = "left" THEN item.leftId ELSE item.rightId
    IN  IF crdtIdEquals(sideId, END_MARKER) \/ ~MapHas(itemDict, crdtIdToString(sideId))
        THEN (IF side = "left" THEN StartKey ELSE EndKey)
        ELSE crdtIdToString(sideId)

\* data.get(k).add(x), creating the entry first when it is missing
DataAdd(d, k, x) ==
    IF MapHas(d, k) THEN MapSet(d, k, MapGet(d, k) \cup {x})
    ELSE Append(d, [k |-> k, v |-> {x}])

\* The first loop of toposortItems: key "comes after" values
RECURSIVE BuildData(_, _)
BuildData(itemDict, its) ==
    IF its = <<>> THEN <<>>
    ELSE LET item == its[Len(its)]
             d0 == BuildData(itemDict, SubSeq(its, 1, Len(its) - 1))
             itemKey == crdtIdToString(item.itemId)
             leftId == getSideId(itemDict, item, "left")
             rightId == getSideId(itemDict, item, "right")
         IN  DataAdd(DataAdd(d0, itemKey, leftId), rightId, itemKey)

\* "Fill in sources not explicitly included": every dependency that is no key
\* gets an empty entry. Only '__start' can be missing (every other dependency
\* is an item key), so the order of the appended entries is immaterial.
RECURSIVE AppendKeys(_, _)
AppendKeys(d, ks) ==
    IF ks = {} THEN d
    ELSE LET k == CHOOSE x \in ks : TRUE
         IN  AppendKeys(Append(d, [k |-> k, v |-> {}]), ks \ {k})

FillSources(d) ==
    LET allDeps == UNION {d[i].v : i \in 1..Len(d)}
    IN  AppendKeys(d, {dep \in allDeps : ~MapHas(d, dep)})

\* nextItems: the keys whose dependency set is empty, in Map order
NextItems(d) ==
    LET ready == SelectSeq(d, LAMBDA e : e.v = {})
    IN  [i \in 1..Len(ready) |-> ready[i].k]

SeqToSet(s) == {s[i] : i \in 1..Len(s)}

\* Comparison of two strings by UTF-16 code units: the order of
\* Array.prototype.sort() without a comparator
RECURSIVE StrLess(_, _)
StrLess(a, b) ==
    IF b = <<>> THEN FALSE
    ELSE IF a = <<>> THEN TRUE
    ELSE IF Head(a) # Head(b) THEN Head(a) < Head(b)
    ELSE StrLess(Tail(a), Tail(b))

\* Insert key k into the sorted sequence s, after the keys not greater than it
RECURSIVE SortInsert(_, _)
SortInsert(s, k) ==
    IF s = <<>> THEN <<k>>
    ELSE IF StrLess(k, Head(s)) THEN <<k>> \o s
    ELSE <<Head(s)>> \o SortInsert(Tail(s), k)

RECURSIVE SortKeysBy(_)
SortKeysBy(s) ==
    IF s = <<>> THEN <<>>
    ELSE SortInsert(SortKeysBy(SubSeq(s, 1, Len(s) - 1)), s[Len(s)])

\* A plausible slip: the layer is emitted in Map order, without .sort()
SortKeysUnsorted(s) == s

\* Array.from(nextItems).filter(...).sort()
SortKeys(s) == SortKeysBy(s)

\* sortedItems and the ids pushed onto result
SortedItems(itemDict, d) ==
    SortKeys(SelectSeq(NextItems(d), LAMBDA k : MapHas(itemDict, k)))

LayerIds(itemDict, d) ==
    LET sorted == SortedItems(itemDict, d)
    IN  [i \in 1..Len(sorted) |-> MapGet(itemDict, sorted[i]).itemId]

\* A plausible slip: the processed keys stay in the relation
RemoveProcessedKeep(d) == d

\* "Remove processed items from dependencies"
RemoveProcessed(d) ==
    LET nextItems == SeqToSet(NextItems(d))
        kept == SelectSeq(d, LAMBDA e : e.k \notin nextItems)
    IN  [i \in 1..Len(kept) |-> [k |-> kept[i].k, v |-> kept[i].v \ nextItems]]

\* The layer loop as a function of the relation and the ids emitted so far
RECURSIVE LayerLoop(_, _, _)
LayerLoop(itemDict, d, res) ==
    LET nextItems == SeqToSet(NextItems(d))
    IN  IF nextItems = {EndKey} THEN [status |-> "done", ids |-> res]
        ELSE IF nextItems = {} THEN [status |-> "error", ids |-> res]
        ELSE LayerLoop(itemDict, RemoveProcessed(d), res \o LayerIds(itemDict, d))

toposortItems(its) ==
    IF Len(its) = 0 THEN [status |-> "done", ids |-> <<>>]
    ELSE LayerLoop(ItemDict(its), FillSources(BuildData(ItemDict(its), its)), <<>>)

\* new CrdtSequence(items): the _items Map
RECURSIVE CrdtSequence(_)
CrdtSequence(its) ==
    IF its = <<>> THEN <<>>
    ELSE LET last == its[Len(its)]
         IN  MapSet(CrdtSequence(SubSeq(its, 1, Len(its) - 1)),
                    crdtIdToString(last.itemId), last)

\* Array.from(this._items.values())
sequenceItems(seq) == [i \in 1..Len(seq) |-> seq[i].v]

keys(seq) == toposortItems(sequenceItems(seq))

(***************************************************************************)
(* The inputs of the topological sort                                      *)
(***************************************************************************)
\* The ids items are drawn from: two counters of one author whose decimal
\* forms differ in length, and a second author.
IdPool == {createCrdtId(1, 2), createCrdtId(1, 10), createCrdtId(2, 1)}

\* What left_id and right_id may hold: the end-marker, an id of the pool
\* (the item itself included), or an id no item ever has.
RefPool == IdPool \cup {END_MARKER, createCrdtId(2, 10)}

ItemPool ==
    {createCrdtSequenceItem(i, l, r, 0, [kind |-> "Line"]) : i \in IdPool, l \in RefPool, r \in RefPool}

DistinctIds(its) ==
    \A i, j \in 1..Len(its) : i # j => its[i].itemId # its[j].itemId

ItemArrays ==
    {its \in UNION {[1..n -> ItemPool] : n \in 0..MaxItems} : DistinctIds(its)}

TopoIdle ==
    /\ items = <<>>
    /\ data = <<>>
    /\ result = <<>>
    /\ layer = <<>>
    /\ passes = 0
    /\ tpc = "idle"

TreeIdle ==
    /\ nodes = <<>>
    /\ rootText = [kind |-> "null"]
    /\ lastBlock = [blockType |-> -1, unreadable |-> FALSE]
    /\ nblocks = 0
    /\ bstatus = "idle"

ReaderIdle ==
    /\ buffer = <<>>
    /\ position = 0
    /\ currentBlock = [kind |-> "null"]
    /\ warnedAboutExtraData = FALSE
    /\ warnings = 0
    /\ yielded = <<>>
    /\ rstatus = "idle"

CallIdle ==
    /\ call = [op |-> "none"]
    /\ written = [kind |-> "null"]
    /\ ncalls = 0

SeqIdle ==
    seqItems = <<>>

PairIdle ==
    readers = <<>>

WriterIdle ==
    /\ wstreams = <<>>
    /\ wdata = 0
    /\ inBlock = FALSE
    /\ ends = <<>>
    /\ wlog = <<>>

TopoInit ==
    /\ WriterIdle
    /\ PairIdle
    /\ SeqIdle
    /\ TreeIdle
    /\ ReaderIdle
    /\ CallIdle
    /\ items \in ItemArrays
    /\ data = <<>>
    /\ result = <<>>
    /\ layer = <<>>
    /\ passes = 0
    /\ tpc = "build"

\* if (items.length === 0) return []; otherwise build itemDict and data
TopoBuild ==
    /\ tpc = "build"
    /\ IF Len(items) = 0
       THEN tpc' = "done" /\ data' = data
       ELSE /\ tpc' = "loop"
            /\ data' = FillSources(BuildData(ItemDict(items), items))
    /\ UNCHANGED <<items, result, layer, passes>>
    /\ UNCHANGED notTopoVars

\* if (nextItems.size === 1 && nextItems.has('__end')) break;
TopoBreak ==
    /\ tpc = "loop"
    /\ SeqToSet(NextItems(data)) = {EndKey}
    /\ tpc' = "done"
    /\ passes' = passes + 1
    /\ UNCHANGED <<items, data, result, layer>>
    /\ UNCHANGED notTopoVars

\* if (nextItems.size === 0) throw new Error('cyclic dependency');
TopoCyclic ==
    /\ tpc = "loop"
    /\ SeqToSet(NextItems(data)) = {}
    /\ tpc' = "error"
    /\ passes' = passes + 1
    /\ UNCHANGED <<items, data, result, layer>>
    /\ UNCHANGED notTopoVars

\* One pass of the layer loop: emit the sorted layer, drop it from the relation
TopoLayer ==
    /\ tpc = "loop"
    /\ SeqToSet(NextItems(data)) \notin {{EndKey}, {}}
    /\ layer' = LayerIds(ItemDict(items), data)
    /\ result' = result \o layer'
    /\ data' = RemoveProcessed(data)
    /\ passes' = passes + 1
    /\ UNCHANGED <<items, tpc>>
    /\ UNCHANGED notTopoVars

TopoNext == TopoBuild \/ TopoBreak \/ TopoCyclic \/ TopoLayer

TopoSpec == TopoInit /\ [][TopoNext]_vars

(***************************************************************************)
(* Properties of the topological sort                                      *)
(***************************************************************************)
\* a occurs in s at an earlier place than b
Before(s, a, b) == \E i, j \in 1..Len(s) : i < j /\ s[i] = a /\ s[j] = b

ItemIds(its) == [i \in 1..Len(its) |-> its[i].itemId]

\* Every order in which the same items can be handed over
PermsOf(its) ==
    IF its = <<>> THEN {<<>>}
    ELSE {[i \in 1..Len(its) |-> its[f[i]]] : f \in Permutations(1..Len(its))}

\* What the caller of keys() sees: the list, or the thrown error
Outcome(r) == IF r.status = "error" THEN "error" ELSE r.ids

\* C2: when toposortItems returns, every item whose left_id names another
\* item L of the sequence comes after L in the result, and every item whose
\* right_id names another item R comes before R.
C2_LeftRightRespected ==
    tpc = "done" =>
        \A e \in SeqToSet(items) : \A o \in SeqToSet(items) :
            e # o =>
                /\ (e.leftId = o.itemId => Before(result, o.itemId, e.itemId))
                /\ (e.rightId = o.itemId => Before(result, e.itemId, o.itemId))

\* C3: the ids emitted by one pass of the layer loop are in ascending
\* (author, counter) order, the order of crdtIdCompare.
C3_LayerAscending ==
    \A i, j \in 1..Len(layer) : i < j => crdtIdCompare(layer[i], layer[j]) = -1

\* C4: when toposortItems returns, the result holds the id of every item
\* exactly once.
C4_EveryItemOnce ==
    tpc = "done" =>
        /\ Len(result) = Len(items)
        /\ \A k \in 1..Len(items) :
               Cardinality({i \in 1..Len(result) : result[i] = items[k].itemId}) = 1

\* C5: the outcome of keys() is the same for every order in which the items
\* of the sequence were added.
C5_OrderIndependent ==
    tpc \in {"done", "error"} =>
        \A p \in PermsOf(items) :
            Outcome(keys(CrdtSequence(p))) = Outcome([status |-> tpc, ids |-> result])

\* A finished run over three items whose result is not their insertion order
C5_Witness ==
    /\ tpc = "done"
    /\ Len(items) = 3
    /\ Len(result) = 3
    /\ result # ItemIds(items)

\* One pass of the layer loop breaks on {__end}, throws on the empty layer, or
\* leaves a strictly smaller relation
LoopStepProgress ==
    tpc = "loop" =>
        \/ tpc' = "done" /\ SeqToSet(NextItems(data)) = {EndKey}
        \/ tpc' = "error" /\ SeqToSet(NextItems(data)) = {}
        \/ tpc' = "loop" /\ Len(data') < Len(data)

\* C6: every pass of the layer loop stops, throws or removes at least one
\* node from the relation, so the loop body runs at most once per item plus
\* once for '__start' and once for the pass that ends it.
C6_Terminates == [][LoopStepProgress /\ passes' <= Len(items) + 2]_vars

\* A run that ended over items that reference each other
C6_Witness ==
    /\ tpc \in {"done", "error"}
    /\ \E e \in SeqToSet(items) : \E o \in SeqToSet(items) :
           e # o /\ e.rightId = o.itemId /\ o.rightId = e.itemId
    /\ \E e \in SeqToSet(items) : e.leftId = e.itemId

(***************************************************************************)
(* scene-items.ts, scene-stream.ts: groups and blocks                      *)
(***************************************************************************)
\* null and undefined, as values of an object-typed field
Null == [kind |-> "null"]
Undefined == [kind |-> "undefined"]

createLwwValue(timestamp, value) == [timestamp |-> timestamp, value |-> value]

\* createGroup(nodeId, options) with every option given
createGroupWith(nodeId, children, label, visible, anchorId, anchorType, anchorThreshold, anchorOriginX) ==
    [kind |-> "Group", nodeId |-> nodeId, children |-> children,
     label |-> label, visible |-> visible,
     anchorId |-> anchorId, anchorType |-> anchorType,
     anchorThreshold |-> anchorThreshold, anchorOriginX |-> anchorOriginX]

\* createGroup(nodeId): the defaults of the options
createGroup(nodeId) ==
    createGroupWith(nodeId, CrdtSequence(<<>>),
                    createLwwValue(END_MARKER, ""), createLwwValue(END_MARKER, TRUE),
                    Null, Null, Null, Null)

BlockType_MigrationInfo == 0
BlockType_SceneTree == 1
BlockType_TreeNode == 2
BlockType_SceneGlyphItem == 3
BlockType_SceneGroupItem == 4
BlockType_SceneLineItem == 5
BlockType_SceneTextItem == 6
BlockType_RootText == 7
BlockType_SceneTombstoneItem == 8
BlockType_AuthorIds == 9
BlockType_PageInfo == 10
BlockType_SceneInfo == 13

createSceneTreeBlock(treeId, nodeId, isUpdate, parentId) ==
    [blockType |-> BlockType_SceneTree, unreadable |-> FALSE,
     treeId |-> treeId, nodeId |-> nodeId, isUpdate |-> isUpdate, parentId |-> parentId]

createTreeNodeBlock(group) ==
    [blockType |-> BlockType_TreeNode, unreadable |-> FALSE, group |-> group]

createSceneLineItemBlock(parentId, item) ==
    [blockType |-> BlockType_SceneLineItem, unreadable |-> FALSE,
     parentId |-> parentId, item |-> item]

createSceneGroupItemBlock(parentId, item) ==
    [blockType |-> BlockType_SceneGroupItem, unreadable |-> FALSE,
     parentId |-> parentId, item |-> item]

createSceneGlyphItemBlock(parentId, item) ==
    [blockType |-> BlockType_SceneGlyphItem, unreadable |-> FALSE,
     parentId |-> parentId, item |-> item]

createSceneTombstoneItemBlock(parentId, item) ==
    [blockType |-> BlockType_SceneTombstoneItem, unreadable |-> FALSE,
     parentId |-> parentId, item |-> item]

createRootTextBlock(blockId, value) ==
    [blockType |-> BlockType_RootText, unreadable |-> FALSE,
     blockId |-> blockId, value |-> value]

createMigrationInfoBlock(migrationId, isDevice, unknown) ==
    [blockType |-> BlockType_MigrationInfo, unreadable |-> FALSE,
     migrationId |-> migrationId, isDevice |-> isDevice, unknown |-> unknown]

createPageInfoBlock(loadsCount, mergesCount, textCharsCount, textLinesCount, typeFolioUseCount) ==
    [blockType |-> BlockType_PageInfo, unreadable |-> FALSE,
     loadsCount |-> loadsCount, mergesCount |-> mergesCount,
     textCharsCount |-> textCharsCount, textLinesCount |-> textLinesCount,
     typeFolioUseCount |-> typeFolioUseCount]

\* An UnreadableBlock keeps the block type of the envelope it came from and
\* has none of the typed block's fields.
createUnreadableBlock(error, bytes, info) ==
    [blockType |-> info.blockType, unreadable |-> TRUE,
     error |-> error, data |-> bytes, info |-> info]

\* The type guards look at blockType only
isSceneTreeBlock(block) == block.blockType = BlockType_SceneTree
isTreeNodeBlock(block) == block.blockType = BlockType_TreeNode
isSceneGroupItemBlock(block) == block.blockType = BlockType_SceneGroupItem
isSceneLineItemBlock(block) == block.blockType = BlockType_SceneLineItem
isSceneGlyphItemBlock(block) == block.blockType = BlockType_SceneGlyphItem
isRootTextBlock(block) == block.blockType = BlockType_RootText

(***************************************************************************)
(* scene-tree.ts                                                           *)
(***************************************************************************)
ROOT_ID == createCrdtId(0, 1)

addAlways(seq, item) ==
    [ok |-> TRUE, seq |-> MapSet(seq, crdtIdToString(item.itemId), item)]

\* CrdtSequence.add: throws when the key is present
add(seq, item) ==
    LET key == crdtIdToString(item.itemId)
    IN  IF MapHas(seq, key) THEN [ok |-> FALSE, seq |-> seq]
        ELSE [ok |-> TRUE, seq |-> MapSet(seq, key, item)]

\* CrdtSequence.get: the value of the item, undefined when there is none
get(seq, key) ==
    IF MapHas(seq, crdtIdToString(key))
    THEN MapGet(seq, crdtIdToString(key)).value
    ELSE Undefined

\* A tree is what buildTree can change, and whether it threw
Tree(n, rt, st) == [nodes |-> n, rootText |-> rt, status |-> st]

Thrown(t) == [t EXCEPT !.status = "error"]

\* new SceneTree()
NewTree == Tree(MapSet(<<>>, crdtIdToString(ROOT_ID), createGroup(ROOT_ID)), Null, "running")

TreeHas(n, nodeId) == MapHas(n, crdtIdToString(nodeId))

TreeGet(n, nodeId) == MapGet(n, crdtIdToString(nodeId))

\* SceneTree.addNode: parentId is not used
addNode(n, nodeId, parentId) ==
    IF ~TreeHas(n, nodeId)
    THEN MapSet(n, crdtIdToString(nodeId), createGroup(nodeId))
    ELSE n

\* SceneTree.addItem: throws when the parent is missing or the item id is taken
addItem(t, item, parentId) ==
    IF ~TreeHas(t.nodes, parentId) THEN Thrown(t)
    ELSE LET parent == TreeGet(t.nodes, parentId)
             added == add(parent.children, item)
         IN  IF ~added.ok THEN Thrown(t)
             ELSE [t EXCEPT !.nodes = MapSet(t.nodes, crdtIdToString(parentId),
                                             [parent EXCEPT !.children = added.seq])]

\* A group in a child sequence is a reference to the object held by _nodes:
\* it is kept as the node's id and read through the tree.
GroupRef(nodeId) == [kind |-> "Group", ref |-> nodeId]

\* if (isSceneTreeBlock(block)) ...
ApplySceneTreeBlock(t, block) ==
    IF block.unreadable THEN Thrown(t)    \* crdtIdToString(undefined): TypeError
    ELSE [t EXCEPT !.nodes = addNode(t.nodes, block.treeId, block.parentId)]

\* A plausible slip: an anchor the block does not have leaves the group's
ApplyTreeNodeBlockMerging(t, block) ==
    IF block.unreadable THEN Thrown(t)
    ELSE IF ~TreeHas(t.nodes, block.group.nodeId) THEN Thrown(t)
    ELSE LET node == TreeGet(t.nodes, block.group.nodeId)
         IN  [t EXCEPT !.nodes =
                 MapSet(t.nodes, crdtIdToString(block.group.nodeId),
                        [node EXCEPT !.label = block.group.label,
                                     !.visible = block.group.visible,
                                     !.anchorId = IF block.group.anchorId = Null
                                                  THEN @ ELSE block.group.anchorId])]

\* else if (isTreeNodeBlock(block)) ...
ApplyTreeNodeBlock(t, block) ==
    IF block.unreadable THEN Thrown(t)    \* block.group.nodeId: TypeError
    ELSE IF ~TreeHas(t.nodes, block.group.nodeId) THEN Thrown(t)
    ELSE LET node == TreeGet(t.nodes, block.group.nodeId)
         IN  [t EXCEPT !.nodes =
                 MapSet(t.nodes, crdtIdToString(block.group.nodeId),
                        [node EXCEPT !.label = block.group.label,
                                     !.visible = block.group.visible,
                                     !.anchorId = block.group.anchorId,
                                     !.anchorType = block.group.anchorType,
                                     !.anchorThreshold = block.group.anchorThreshold,
                                     !.anchorOriginX = block.group.anchorOriginX])]

\* else if (isSceneGroupItemBlock(block)) ...
ApplySceneGroupItemBlock(t, block) ==
    IF block.unreadable THEN Thrown(t)    \* block.item.value: TypeError
    ELSE IF block.item.value = Null THEN t
    ELSE IF ~TreeHas(t.nodes, block.item.value.ref) THEN Thrown(t)
    ELSE addItem(t,
                 createCrdtSequenceItem(block.item.itemId, block.item.leftId,
                                        block.item.rightId, block.item.deletedLength,
                                        GroupRef(block.item.value.ref)),
                 block.parentId)

\* else if (isSceneLineItemBlock(block) || isSceneGlyphItemBlock(block)) ...
ApplySceneItemBlock(t, block) ==
    IF block.unreadable THEN Thrown(t)    \* crdtIdToString(undefined): TypeError
    ELSE addItem(t, block.item, block.parentId)

\* else if (isRootTextBlock(block)) ...
ApplyRootTextBlock(t, block) ==
    [t EXCEPT !.rootText = IF block.unreadable THEN Undefined ELSE block.value]

\* One pass of the for loop of buildTree
ApplyBlock(t, block) ==
    IF isSceneTreeBlock(block) THEN ApplySceneTreeBlock(t, block)
    ELSE IF isTreeNodeBlock(block) THEN ApplyTreeNodeBlock(t, block)
    ELSE IF isSceneGroupItemBlock(block) THEN ApplySceneGroupItemBlock(t, block)
    ELSE IF isSceneLineItemBlock(block) \/ isSceneGlyphItemBlock(block)
         THEN ApplySceneItemBlock(t, block)
    ELSE IF isRootTextBlock(block) THEN ApplyRootTextBlock(t, block)
    ELSE t

\* buildTree over a whole block sequence, stopping at the first throw
RECURSIVE buildTree(_, _)
buildTree(t, blocks) ==
    IF blocks = <<>> \/ t.status = "error" THEN t
    ELSE buildTree(ApplyBlock(t, Head(blocks)), Tail(blocks))

(***************************************************************************)
(* DataStream (tagged-block-common.ts).  A reader is the record            *)
(* [position, currentBlock, warned, warnings]; b is the buffer.  A read has *)
(* [err, r, val]: the error thrown ("none" when it returned), the reader   *)
(* as the call left it, and the value returned.                            *)
(***************************************************************************)
HEADER_V6 ==
    <<114, 101, 77, 97, 114, 107, 97, 98, 108, 101, 32, 46, 108, 105, 110, 101,
      115, 32, 102, 105, 108, 101, 44, 32, 118, 101, 114, 115, 105, 111, 110,
      61, 54, 32, 32, 32, 32, 32, 32, 32, 32, 32, 32>>

TagType_ID == 15
TagType_Length4 == 12
TagType_Byte8 == 8
TagType_Byte4 == 4
TagType_Byte1 == 1

TagTypes == {TagType_ID, TagType_Length4, TagType_Byte8, TagType_Byte4, TagType_Byte1}

Returned(r, v) == [err |-> "none", r |-> r, val |-> v]

Threw(r, e) == [err |-> e, r |-> r, val |-> [kind |-> "null"]]

\* v, evaluated once, handed to F
With(v, F(_)) == CHOOSE y \in {F(x) : x \in {v}} : TRUE

\* The call x followed by F unless x threw: the error of x leaves the caller
Then(x, F(_)) == With(x, LAMBDA y : IF y.err # "none" THEN y ELSE F(y))

tell(r) == r.position

seek(b, r, pos) ==
    IF pos < 0 \/ pos > Len(b) THEN Threw(r, "Error: Seek position out of bounds")
    ELSE Returned([r EXCEPT !.position = pos], [kind |-> "null"])

readBytes(b, r, n) ==
    IF r.position + n > Len(b) THEN Threw(r, "EOF")
    ELSE Returned([r EXCEPT !.position = @ + n],
                  SubSeq(b, r.position + 1, r.position + n))

readUint8(b, r) ==
    IF r.position + 1 > Len(b) THEN Threw(r, "EOF")
    ELSE Returned([r EXCEPT !.position = @ + 1], b[r.position + 1])

readBool(b, r) ==
    Then(readUint8(b, r), LAMBDA x : Returned(x.r, x.val # 0))

readUint32(b, r) ==
    IF r.position + 4 > Len(b) THEN Threw(r, "EOF")
    ELSE Returned([r EXCEPT !.position = @ + 4],
                  b[r.position + 1] + 256 * b[r.position + 2]
                  + 65536 * b[r.position + 3] + 16777216 * b[r.position + 4])

\* A 32-bit word as the set of its one bits, for | and << of readVaruint
Bits7(byte) == {i \in 0..6 : (byte \div 2^i) % 2 = 1}

Shl32(bits, shift) == {i + (shift % 32) : i \in bits} \cap (0..31)

RECURSIVE SumPow2(_)
SumPow2(bits) ==
    IF bits = {} THEN 0
    ELSE LET i == CHOOSE j \in bits : TRUE IN 2^i + SumPow2(bits \ {i})

ToInt32(bits) ==
    SumPow2(bits \ {31}) + (IF 31 \in bits THEN (-2147483647) - 1 ELSE 0)

RECURSIVE readVaruintLoop(_, _, _, _)
readVaruintLoop(b, r, shift, bits) ==
    Then(readUint8(b, r), LAMBDA x :
    With(bits \cup Shl32(Bits7(x.val % 128), shift), LAMBDA acc :
        IF x.val < 128 THEN Returned(x.r, ToInt32(acc))
        ELSE readVaruintLoop(b, x.r, shift + 7, acc)))

readVaruint(b, r) == readVaruintLoop(b, r, 0, {})

readCrdtId(b, r) ==
    Then(readUint8(b, r), LAMBDA part1 :
    Then(readVaruint(b, part1.r), LAMBDA part2 :
        Returned(part2.r, createCrdtId(part1.val, part2.val))))

readHeader(b, r) ==
    Then(readBytes(b, r, Len(HEADER_V6)), LAMBDA header :
        IF header.val # HEADER_V6 THEN Threw(header.r, "Error: Wrong header")
        ELSE Returned(header.r, [kind |-> "null"]))

readTagValues(b, r) ==
    Then(readVaruint(b, r), LAMBDA x :
        IF (x.val % 16) \notin TagTypes THEN Threw(x.r, "Error: Bad tag type")
        ELSE Returned(x.r, [index |-> x.val \div 16, tagType |-> x.val % 16]))

\* this._position = pos
PositionRestored(r, pos) == [r EXCEPT !.position = pos]

\* try { ... } catch { return false } finally { this._position = pos }
checkTag(b, r, expectedIndex, expectedType) ==
    With(readTagValues(b, r), LAMBDA t :
        Returned(PositionRestored(t.r, tell(r)),
                 /\ t.err = "none"
                 /\ t.val.index = expectedIndex
                 /\ t.val.tagType = expectedType))

readTag(b, r, expectedIndex, expectedType) ==
    Then(readTagValues(b, r), LAMBDA t :
        IF t.val.index # expectedIndex \/ t.val.tagType # expectedType
        THEN Threw(PositionRestored(t.r, tell(r)), "UnexpectedBlockError")
        ELSE t)

readUint16(b, r) ==
    IF r.position + 2 > Len(b) THEN Threw(r, "EOF")
    ELSE Returned([r EXCEPT !.position = @ + 2],
                  b[r.position + 1] + 256 * b[r.position + 2])

\* A float is kept as the bytes of its IEEE encoding, first byte first
readFloat32(b, r) ==
    IF r.position + 4 > Len(b) THEN Threw(r, "EOF")
    ELSE Returned([r EXCEPT !.position = @ + 4],
                  [kind |-> "float32", bytes |-> SubSeq(b, r.position + 1, r.position + 4)])

readFloat64(b, r) ==
    IF r.position + 8 > Len(b) THEN Threw(r, "EOF")
    ELSE Returned([r EXCEPT !.position = @ + 8],
                  [kind |-> "float64", bytes |-> SubSeq(b, r.position + 1, r.position + 8)])

(***************************************************************************)
(* DataStream, writing.  The stream w is the sequence of the bytes written *)
(* so far (getBytes()).  A number handed to a write is [neg, bits]: its    *)
(* sign and the set of the one bits of its magnitude, so that values of    *)
(* 2^31 and more can be written down.  A write gives [err, w].             *)
(***************************************************************************)
Num(neg, bits) == [neg |-> neg, bits |-> bits]

\* The number a read returned (a 32-bit integer) in the same form
NumOfInt(i) ==
    IF i >= 0 THEN Num(FALSE, {k \in 0..30 : (i \div 2^k) % 2 = 1})
    ELSE IF i = (-2147483647) - 1 THEN Num(TRUE, {31})
    ELSE Num(TRUE, {k \in 0..30 : ((-i) \div 2^k) % 2 = 1})

\* value < 0
IsNegative(value) == value.neg /\ value.bits # {}

\* value >= 2 ** k
AtLeastPow2(value, k) == ~IsNegative(value) /\ \E i \in value.bits : i >= k

\* ToUint32(value) as the set of its one bits (two's complement when negative,
\* for magnitudes below 2^31)
ToUint32(value) ==
    IF ~IsNegative(value) THEN value.bits \cap (0..31)
    ELSE LET m == SumPow2(value.bits \cap (0..30))
             low == (2147483647 - m) + 1    \* 2^31 - m
         IN  {k \in 0..30 : (low \div 2^k) % 2 = 1} \cup {31}

Wrote(w) == [err |-> "none", w |-> w]

WriteThrew(w, e) == [err |-> e, w |-> w]

writeBytes(w, bytes) == Wrote(w \o bytes)

\* DataView.setUint8 stores the value modulo 256
writeUint8(w, value) == Wrote(Append(w, SumPow2(ToUint32(value) \cap (0..7))))

\* The loop of writeVaruint over the bits of ToUint32(value)
RECURSIVE writeVaruintLoop(_, _)
writeVaruintLoop(bytes, bits) ==
    LET toWrite == SumPow2(bits \cap (0..6))
        rest == {i - 7 : i \in bits \cap (7..31)}
    IN  IF rest # {} THEN writeVaruintLoop(Append(bytes, toWrite + 128), rest)
        ELSE Append(bytes, toWrite)

writeVaruint(w, value) ==
    IF IsNegative(value) THEN WriteThrew(w, "Error: value is negative")
    ELSE writeBytes(w, writeVaruintLoop(<<>>, ToUint32(value)))

writeCrdtId(w, value) ==
    IF AtLeastPow2(value.part1, 8) \/ AtLeastPow2(value.part2, 64)
    THEN WriteThrew(w, "Error: CrdtId too large")
    ELSE writeVaruint(writeUint8(w, value.part1).w, value.part2)

\* DataView.setUint32(position, value, true): the low 32 bits, little endian
writeUint32(w, value) ==
    Wrote(w \o <<value % 256, (value \div 256) % 256, (value \div 65536) % 256,
                 (value \div 16777216) % 256>>)

writeBool(w, value) == writeUint8(w, NumOfInt(IF value THEN 1 ELSE 0))

\* A double is kept as the eight bytes that stand for it
writeFloat64(w, value) == Wrote(w \o value.bytes)

\* (index << 4) | tagType
writeTag(w, index, tagType) == writeVaruint(w, NumOfInt(index * 16 + tagType))

(***************************************************************************)
(* TaggedBlockWriter (tagged-block-writer.ts).  The writer tw is           *)
(* [streams, data, inBlock]: the DataStreams made so far (the bytes of     *)
(* each), the index of the one this.data refers to, and _inBlock.  A call  *)
(* gives [err, r, val] with r the writer after it; the closure returned by *)
(* startBlock and startSubblock is the record of what it captured.         *)
(***************************************************************************)
NewWriter == [streams |-> << <<>> >>, data |-> 1, inBlock |-> FALSE]

\* The bytes of this.data
DataOf(tw) == tw.streams[tw.data]

\* The write x, made on this.data
OnData(tw, x) ==
    IF x.err # "none" THEN Threw([tw EXCEPT !.streams[tw.data] = x.w], x.err)
    ELSE Returned([tw EXCEPT !.streams[tw.data] = x.w], Undefined)

TaggedBlockWriter_writeId(tw, index, value) ==
    Then(OnData(tw, writeTag(DataOf(tw), index, TagType_ID)), LAMBDA t :
        OnData(t.r, writeCrdtId(DataOf(t.r), value)))

writeInt(tw, index, value) ==
    Then(OnData(tw, writeTag(DataOf(tw), index, TagType_Byte4)), LAMBDA t :
        OnData(t.r, writeUint32(DataOf(t.r), value)))

\* An earlier version: a block may be started within a block
AlreadyInBlockNever(tw) == FALSE

\* if (this._inBlock)
AlreadyInBlock(tw) == tw.inBlock

\* val is the closure that ends the block
startBlock(tw, blockType, minVersion, currentVersion) ==
    IF AlreadyInBlock(tw) THEN Threw(tw, "UnexpectedBlockError")
    ELSE Returned([tw EXCEPT !.inBlock = TRUE,
                             !.streams = Append(@, <<>>),
                             !.data = Len(tw.streams) + 1],
                  [kind |-> "endBlock", previousData |-> tw.data,
                   blockData |-> Len(tw.streams) + 1, blockType |-> blockType,
                   minVersion |-> minVersion, currentVersion |-> currentVersion])

\* The closure returned by startBlock, called
endBlockCallback(tw, end) ==
    With([tw EXCEPT !.data = end.previousData, !.inBlock = FALSE], LAMBDA t0 :
    With(tw.streams[end.blockData], LAMBDA blockBytes :
    Then(OnData(t0, writeUint32(DataOf(t0), Len(blockBytes))), LAMBDA t1 :
    Then(OnData(t1.r, writeUint8(DataOf(t1.r), NumOfInt(0))), LAMBDA t2 :
    Then(OnData(t2.r, writeUint8(DataOf(t2.r), NumOfInt(end.minVersion))), LAMBDA t3 :
    Then(OnData(t3.r, writeUint8(DataOf(t3.r), NumOfInt(end.currentVersion))), LAMBDA t4 :
    Then(OnData(t4.r, writeUint8(DataOf(t4.r), NumOfInt(end.blockType))), LAMBDA t5 :
        OnData(t5.r, writeBytes(DataOf(t5.r), blockBytes)))))))))

\* val is the closure that ends the sub-block
startSubblock(tw, index) ==
    Returned([tw EXCEPT !.streams = Append(@, <<>>), !.data = Len(tw.streams) + 1],
             [kind |-> "endSubblock", previousData |-> tw.data,
              blockData |-> Len(tw.streams) + 1, index |-> index])

\* The length written for a sub-block of n bytes, by a slip one more
SubblockLengthPlusOne(n) == n + 1

\* subblockBytes.length
SubblockLength(n) == n

\* The closure returned by startSubblock, called
endSubblockCallback(tw, end) ==
    With([tw EXCEPT !.data = end.previousData], LAMBDA t0 :
    With(tw.streams[end.blockData], LAMBDA subblockBytes :
    Then(OnData(t0, writeTag(DataOf(t0), end.index, TagType_Length4)), LAMBDA t1 :
    Then(OnData(t1.r, writeUint32(DataOf(t1.r), SubblockLength(Len(subblockBytes)))),
         LAMBDA t2 :
        OnData(t2.r, writeBytes(DataOf(t2.r), subblockBytes))))))

\* TextEncoder.encode(value): the UTF-8 bytes of the code units of value
\* (none of them a surrogate)
RECURSIVE utf8Encode(_)
utf8Encode(value) ==
    IF value = <<>> THEN <<>>
    ELSE With(value[1], LAMBDA c :
             (IF c < 128 THEN <<c>>
              ELSE IF c < 2048 THEN <<192 + (c \div 64), 128 + (c % 64)>>
              ELSE <<224 + (c \div 4096), 128 + ((c \div 64) % 64), 128 + (c % 64)>>)
             \o utf8Encode(Tail(value)))

writeString(tw, index, value) ==
    Then(startSubblock(tw, index), LAMBDA end :
    With(utf8Encode(value), LAMBDA bytes :
    Then(OnData(end.r, writeVaruint(DataOf(end.r), NumOfInt(Len(bytes)))), LAMBDA t1 :
    Then(OnData(t1.r, writeBool(DataOf(t1.r), TRUE)), LAMBDA t2 :
    Then(OnData(t2.r, writeBytes(DataOf(t2.r), bytes)), LAMBDA t3 :
        endSubblockCallback(t3.r, end.val))))))

\* The loop over glyph.rectangles
RECURSIVE writeRectangles(_, _)
writeRectangles(tw, rectangles) ==
    IF rectangles = <<>> THEN Returned(tw, Undefined)
    ELSE With(rectangles[1], LAMBDA rect :
         Then(OnData(tw, writeFloat64(DataOf(tw), rect.x)), LAMBDA x :
         Then(OnData(x.r, writeFloat64(DataOf(x.r), rect.y)), LAMBDA y :
         Then(OnData(y.r, writeFloat64(DataOf(y.r), rect.w)), LAMBDA w :
         Then(OnData(w.r, writeFloat64(DataOf(w.r), rect.h)), LAMBDA h :
             writeRectangles(h.r, Tail(rectangles)))))))

writeGlyphRange(tw, glyph) ==
    Then(IF glyph.start # Null
         THEN Then(writeInt(tw, 2, glyph.start.value), LAMBDA s :
                  writeInt(s.r, 3, glyph.length))
         ELSE Returned(tw, Undefined), LAMBDA t1 :
    Then(writeInt(t1.r, 4, glyph.color), LAMBDA t2 :
    Then(writeString(t2.r, 5, glyph.text), LAMBDA t3 :
    Then(startSubblock(t3.r, 6), LAMBDA end :
    Then(OnData(end.r, writeVaruint(DataOf(end.r), NumOfInt(Len(glyph.rectangles)))),
         LAMBDA t4 :
    Then(writeRectangles(t4.r, glyph.rectangles), LAMBDA t5 :
        endSubblockCallback(t5.r, end.val)))))))

(***************************************************************************)
(* TaggedBlockReader (tagged-block-reader.ts)                              *)
(***************************************************************************)
NewReader ==
    [position |-> 0, currentBlock |-> [kind |-> "null"], warned |-> FALSE,
     warnings |-> 0]

readId(b, r, index) ==
    Then(readTag(b, r, index, TagType_ID), LAMBDA t : readCrdtId(b, t.r))

TaggedBlockReader_readBool(b, r, index) ==
    Then(readTag(b, r, index, TagType_Byte1), LAMBDA t : readBool(b, t.r))

readByte(b, r, index) ==
    Then(readTag(b, r, index, TagType_Byte1), LAMBDA t : readUint8(b, t.r))

readInt(b, r, index) ==
    Then(readTag(b, r, index, TagType_Byte4), LAMBDA t : readUint32(b, t.r))

readFloat(b, r, index) ==
    Then(readTag(b, r, index, TagType_Byte4), LAMBDA t : readFloat32(b, t.r))

readDouble(b, r, index) ==
    Then(readTag(b, r, index, TagType_Byte8), LAMBDA t : readFloat64(b, t.r))

\* _readOptional: x is the outcome of func.call(this, index)
readOptional(x, defaultValue) ==
    With(x, LAMBDA y :
        IF y.err \in {"UnexpectedBlockError", "EOF"} THEN Returned(y.r, defaultValue)
        ELSE y)

readIdOptional(b, r, index, defaultValue) ==
    readOptional(readId(b, r, index), defaultValue)

readBoolOptional(b, r, index, defaultValue) ==
    readOptional(TaggedBlockReader_readBool(b, r, index), defaultValue)

readByteOptional(b, r, index, defaultValue) ==
    readOptional(readByte(b, r, index), defaultValue)

readIntOptional(b, r, index, defaultValue) ==
    readOptional(readInt(b, r, index), defaultValue)

readFloatOptional(b, r, index, defaultValue) ==
    readOptional(readFloat(b, r, index), defaultValue)

readDoubleOptional(b, r, index, defaultValue) ==
    readOptional(readDouble(b, r, index), defaultValue)

ThrowAtEOF(x) == x

\* What the catch of TaggedBlockReader.readBlock makes of the call x
NullAtEOF(x) ==
    With(x, LAMBDA y : IF y.err = "EOF" THEN Returned(y.r, [kind |-> "null"]) ELSE y)

\* The envelope of a top-level block; val is null at the end of the input
TaggedBlockReader_readBlock(b, r) ==
    IF r.currentBlock # [kind |-> "null"] THEN Threw(r, "UnexpectedBlockError")
    ELSE NullAtEOF(
        Then(readUint32(b, r), LAMBDA blockLength :
        Then(readUint8(b, blockLength.r), LAMBDA unknown :
        Then(readUint8(b, unknown.r), LAMBDA minVersion :
        Then(readUint8(b, minVersion.r), LAMBDA currentVersion :
        Then(readUint8(b, currentVersion.r), LAMBDA blockType :
            IF unknown.val # 0
            THEN Threw(blockType.r, "Error: Expected unknown byte to be 0")
            ELSE With([offset |-> tell(blockType.r),
                       size |-> blockLength.val,
                       blockType |-> blockType.val,
                       minVersion |-> minVersion.val,
                       currentVersion |-> currentVersion.val,
                       extraData |-> <<>>],
                      LAMBDA info :
                          Returned([blockType.r EXCEPT !.currentBlock = info],
                                   info))))))))

\* _checkPosition: val is the extraData it stores on blockInfo
WarnEveryTime(r) == [r EXCEPT !.warned = TRUE, !.warnings = @ + 1]

\* if (!this._warnedAboutExtraData) { console.warn(...); ... = true }
WarnOnce(r) ==
    IF r.warned THEN r ELSE [r EXCEPT !.warned = TRUE, !.warnings = @ + 1]

OverflowsNever(r, blockInfo) == FALSE

\* currentPos > offset + size
Overflows(r, blockInfo) == tell(r) > blockInfo.offset + blockInfo.size

checkPosition(b, r, blockInfo) ==
    IF Overflows(r, blockInfo) THEN Threw(r, "BlockOverflowError")
    ELSE IF tell(r) < blockInfo.offset + blockInfo.size
         THEN readBytes(b, WarnOnce(r), blockInfo.offset + blockInfo.size - tell(r))
    ELSE Returned(r, blockInfo.extraData)

endBlock(b, r) ==
    IF r.currentBlock = [kind |-> "null"] THEN Threw(r, "Error: Not in a block")
    ELSE Then(checkPosition(b, r, r.currentBlock), LAMBDA c :
             Returned([c.r EXCEPT !.currentBlock = [kind |-> "null"]], c.val))

bytesRemainingInBlock(r) ==
    r.currentBlock.offset + r.currentBlock.size - tell(r)

readSubblock(b, r, index) ==
    Then(readTag(b, r, index, TagType_Length4), LAMBDA t :
    Then(readUint32(b, t.r), LAMBDA subblockLength :
        Returned(subblockLength.r,
                 [offset |-> tell(subblockLength.r),
                  size |-> subblockLength.val,
                  extraData |-> <<>>])))

endSubblock(b, r, subblock) == checkPosition(b, r, subblock)

(***************************************************************************)
(* Block reading (scene-stream.ts)                                         *)
(***************************************************************************)
KnownBlockTypes ==
    {BlockType_AuthorIds, BlockType_MigrationInfo, BlockType_PageInfo,
     BlockType_SceneTree, BlockType_TreeNode, BlockType_SceneInfo,
     BlockType_SceneLineItem, BlockType_SceneGroupItem, BlockType_SceneGlyphItem,
     BlockType_SceneTombstoneItem, BlockType_SceneTextItem, BlockType_RootText}

readMigrationInfoBlock(b, r) ==
    Then(readId(b, r, 1), LAMBDA migrationId :
    Then(TaggedBlockReader_readBool(b, migrationId.r, 2), LAMBDA isDevice :
    Then(IF bytesRemainingInBlock(isDevice.r) > 0
         THEN readBoolOptional(b, isDevice.r, 3, FALSE)
         ELSE Returned(isDevice.r, FALSE), LAMBDA unknown :
        Returned(unknown.r,
                 createMigrationInfoBlock(migrationId.val, isDevice.val,
                                          unknown.val)))))

readSceneTreeBlock(b, r) ==
    Then(readId(b, r, 1), LAMBDA treeId :
    Then(readId(b, treeId.r, 2), LAMBDA nodeId :
    Then(TaggedBlockReader_readBool(b, nodeId.r, 3), LAMBDA isUpdate :
    Then(readSubblock(b, isUpdate.r, 4), LAMBDA subblock :
    Then(readId(b, subblock.r, 1), LAMBDA parentId :
    Then(endSubblock(b, parentId.r, subblock.val), LAMBDA ended :
        Returned(ended.r,
                 createSceneTreeBlock(treeId.val, nodeId.val, isUpdate.val,
                                      parentId.val))))))))

\* TextDecoder('utf-8').decode(bytes): a string is the sequence of its code
\* units; a byte that is no ASCII character decodes to U+FFFD
utf8Decode(bytes) == [i \in 1..Len(bytes) |-> IF bytes[i] < 128 THEN bytes[i] ELSE 65533]

hasSubblock(b, r, index) ==
    IF r.currentBlock # [kind |-> "null"] /\ bytesRemainingInBlock(r) <= 0
    THEN Returned(r, FALSE)
    ELSE checkTag(b, r, index, TagType_Length4)

readString(b, r, index) ==
    Then(readSubblock(b, r, index), LAMBDA subblock :
    Then(readVaruint(b, subblock.r), LAMBDA stringLength :
    Then(readBool(b, stringLength.r), LAMBDA isAscii :
        IF ~isAscii.val THEN Threw(isAscii.r, "Error: Expected ASCII flag to be true")
        ELSE Then(readBytes(b, isAscii.r, stringLength.val), LAMBDA bytes :
             Then(endSubblock(b, bytes.r, subblock.val), LAMBDA ended :
                 Returned(ended.r, utf8Decode(bytes.val)))))))

\* val is [text, fmt], fmt a boxed number or null
readStringWithFormat(b, r, index) ==
    Then(readSubblock(b, r, index), LAMBDA subblock :
    Then(readVaruint(b, subblock.r), LAMBDA stringLength :
    Then(readBool(b, stringLength.r), LAMBDA isAscii :
        IF ~isAscii.val THEN Threw(isAscii.r, "Error: Expected ASCII flag to be true")
        ELSE Then(readBytes(b, isAscii.r, stringLength.val), LAMBDA bytes :
             Then(IF checkTag(b, bytes.r, 2, TagType_Byte4).val
                  THEN Then(readInt(b, bytes.r, 2), LAMBDA fmt :
                           Returned(fmt.r, [kind |-> "number", value |-> fmt.val]))
                  ELSE Returned(bytes.r, Null), LAMBDA fmt :
             Then(endSubblock(b, fmt.r, subblock.val), LAMBDA ended :
                 Returned(ended.r, [text |-> utf8Decode(bytes.val), fmt |-> fmt.val])))))))

createRectangle(x, y, w, h) == [x |-> x, y |-> y, w |-> w, h |-> h]

createGlyphRange(start, length, text, color, rectangles) ==
    [kind |-> "GlyphRange", start |-> start, length |-> length, text |-> text,
     color |-> color, rectangles |-> rectangles]

\* The outcome x of a read with its number boxed, so that a number read can
\* be told from null
Boxed(x) ==
    With(x, LAMBDA y :
        IF y.err = "none" THEN Returned(y.r, [kind |-> "number", value |-> y.val])
        ELSE y)

\* The loop over numRects
RECURSIVE readRectangles(_, _, _, _)
readRectangles(b, r, n, rectangles) ==
    IF Len(rectangles) >= n THEN Returned(r, rectangles)
    ELSE Then(readFloat64(b, r), LAMBDA x :
         Then(readFloat64(b, x.r), LAMBDA y :
         Then(readFloat64(b, y.r), LAMBDA w :
         Then(readFloat64(b, w.r), LAMBDA h :
             readRectangles(b, h.r, n,
                            Append(rectangles,
                                   createRectangle(x.val, y.val, w.val, h.val)))))))

\* length || text.length
lengthOrTextLength(length, text) ==
    IF length # 0 THEN length ELSE Len(text)

readGlyphRange(b, r) ==
    Then(readOptional(Boxed(readInt(b, r, 2)), Null), LAMBDA start :
    Then(readIntOptional(b, start.r, 3, 0), LAMBDA length :
    Then(readInt(b, length.r, 4), LAMBDA colorId :
    Then(readString(b, colorId.r, 5), LAMBDA text :
    Then(readSubblock(b, text.r, 6), LAMBDA subblock :
    Then(readVaruint(b, subblock.r), LAMBDA numRects :
    Then(readRectangles(b, numRects.r, numRects.val, <<>>), LAMBDA rectangles :
    Then(endSubblock(b, rectangles.r, subblock.val), LAMBDA ended :
        Returned(ended.r,
                 createGlyphRange(start.val,
                                  lengthOrTextLength(length.val, text.val),
                                  text.val, colorId.val, rectangles.val))))))))))

\* val is [parentId, itemId, leftId, rightId, deletedLength]
readSceneItemBlockCommon(b, r) ==
    Then(readId(b, r, 1), LAMBDA parentId :
    Then(readId(b, parentId.r, 2), LAMBDA itemId :
    Then(readId(b, itemId.r, 3), LAMBDA leftId :
    Then(readId(b, leftId.r, 4), LAMBDA rightId :
    Then(readInt(b, rightId.r, 5), LAMBDA deletedLength :
        Returned(deletedLength.r,
                 [parentId |-> parentId.val, itemId |-> itemId.val,
                  leftId |-> leftId.val, rightId |-> rightId.val,
                  deletedLength |-> deletedLength.val]))))))

\* if (reader.hasSubblock(6)) { readSubblock(6); readUint8(); value; endSubblock }
\* with the value of the block type read in between; val is the value, or null
readItemValue(b, r, blockType) ==
    IF ~hasSubblock(b, r, 6).val THEN Returned(r, Null)
    ELSE Then(readSubblock(b, r, 6), LAMBDA subblock :
         Then(readUint8(b, subblock.r), LAMBDA itemType :
         Then(CASE blockType = BlockType_SceneGroupItem -> readId(b, itemType.r, 2)
                [] blockType = BlockType_SceneGlyphItem -> readGlyphRange(b, itemType.r)
                [] OTHER -> Returned(itemType.r, Null), LAMBDA value :
         Then(endSubblock(b, value.r, subblock.val), LAMBDA ended :
             Returned(ended.r, value.val)))))

\* The item a scene item block is made of
SceneItemOf(common, value) ==
    createCrdtSequenceItem(common.itemId, common.leftId, common.rightId,
                           common.deletedLength, value)

readSceneGroupItemBlock(b, r) ==
    Then(readSceneItemBlockCommon(b, r), LAMBDA common :
    Then(readItemValue(b, common.r, BlockType_SceneGroupItem), LAMBDA value :
        Returned(value.r,
                 createSceneGroupItemBlock(common.val.parentId,
                                           SceneItemOf(common.val, value.val)))))

readSceneGlyphItemBlock(b, r) ==
    Then(readSceneItemBlockCommon(b, r), LAMBDA common :
    Then(readItemValue(b, common.r, BlockType_SceneGlyphItem), LAMBDA value :
        Returned(value.r,
                 createSceneGlyphItemBlock(common.val.parentId,
                                           SceneItemOf(common.val, value.val)))))

readSceneTombstoneItemBlock(b, r) ==
    Then(readSceneItemBlockCommon(b, r), LAMBDA common :
    Then(readItemValue(b, common.r, BlockType_SceneTombstoneItem), LAMBDA value :
        Returned(value.r,
                 createSceneTombstoneItemBlock(common.val.parentId,
                                               SceneItemOf(common.val, Null)))))

createSceneTextItemBlock(parentId, item) ==
    [blockType |-> BlockType_SceneTextItem, unreadable |-> FALSE,
     parentId |-> parentId, item |-> item]

readSceneTextItemBlock(b, r) ==
    Then(readSceneItemBlockCommon(b, r), LAMBDA common :
    Then(readItemValue(b, common.r, BlockType_SceneTextItem), LAMBDA value :
        Returned(value.r,
                 createSceneTextItemBlock(common.val.parentId,
                                          SceneItemOf(common.val, Null)))))

\* A text item's value: a string or a format code
readTextItem(b, r) ==
    Then(readSubblock(b, r, 0), LAMBDA subblock :
    Then(readId(b, subblock.r, 2), LAMBDA itemId :
    Then(readId(b, itemId.r, 3), LAMBDA leftId :
    Then(readId(b, leftId.r, 4), LAMBDA rightId :
    Then(readInt(b, rightId.r, 5), LAMBDA deletedLength :
    Then(IF hasSubblock(b, deletedLength.r, 6).val
         THEN Then(readStringWithFormat(b, deletedLength.r, 6), LAMBDA tf :
                  Returned(tf.r, IF tf.val.fmt # Null THEN tf.val.fmt
                                 ELSE [kind |-> "string", value |-> tf.val.text]))
         ELSE Returned(deletedLength.r, [kind |-> "string", value |-> <<>>]),
         LAMBDA value :
    Then(endSubblock(b, value.r, subblock.val), LAMBDA ended :
        Returned(ended.r,
                 createCrdtSequenceItem(itemId.val, leftId.val, rightId.val,
                                        deletedLength.val, value.val)))))))))

\* The magic byte that opens the value of a text format
TextFormatMagic == 17

\* const c = reader.data.readUint8(); // Should be 17
magicRead(r, c) == Returned(r, c)

\* val is [charId, format]
readTextFormat(b, r) ==
    Then(readCrdtId(b, r), LAMBDA charId :
    Then(readId(b, charId.r, 1), LAMBDA timestamp :
    Then(readSubblock(b, timestamp.r, 2), LAMBDA subblock :
    Then(readUint8(b, subblock.r), LAMBDA c0 :
    Then(magicRead(c0.r, c0.val), LAMBDA c :
    Then(readUint8(b, c.r), LAMBDA formatCode :
    Then(endSubblock(b, formatCode.r, subblock.val), LAMBDA ended :
        Returned(ended.r,
                 [charId |-> charId.val,
                  format |-> createLwwValue(timestamp.val, formatCode.val)]))))))))

RECURSIVE readTextItems(_, _, _, _)
readTextItems(b, r, n, textItems) ==
    IF Len(textItems) >= n THEN Returned(r, textItems)
    ELSE Then(readTextItem(b, r), LAMBDA item :
             readTextItems(b, item.r, n, Append(textItems, item.val)))

\* The loop over numFormats: styles.set(crdtIdToString(charId), format)
RECURSIVE readTextFormats(_, _, _, _, _)
readTextFormats(b, r, n, i, styles) ==
    IF i >= n THEN Returned(r, styles)
    ELSE Then(readTextFormat(b, r), LAMBDA f :
             readTextFormats(b, f.r, n, i + 1,
                             MapSet(styles, crdtIdToString(f.val.charId), f.val.format)))

createText(its, styles, posX, posY, width) ==
    [kind |-> "Text", items |-> its, styles |-> styles, posX |-> posX,
     posY |-> posY, width |-> width]

readRootTextBlock(b, r) ==
    Then(readId(b, r, 1), LAMBDA blockId :
    Then(readSubblock(b, blockId.r, 2), LAMBDA subblock2 :
    Then(readSubblock(b, subblock2.r, 1), LAMBDA subblock21 :
    Then(readSubblock(b, subblock21.r, 1), LAMBDA subblock211 :
    Then(readVaruint(b, subblock211.r), LAMBDA numTextItems :
    Then(readTextItems(b, numTextItems.r, numTextItems.val, <<>>), LAMBDA textItems :
    Then(endSubblock(b, textItems.r, subblock211.val), LAMBDA e211 :
    Then(endSubblock(b, e211.r, subblock21.val), LAMBDA e21 :
    Then(readSubblock(b, e21.r, 2), LAMBDA subblock22 :
    Then(readSubblock(b, subblock22.r, 1), LAMBDA subblock221 :
    Then(readVaruint(b, subblock221.r), LAMBDA numFormats :
    Then(readTextFormats(b, numFormats.r, numFormats.val, 0, <<>>), LAMBDA styles :
    Then(endSubblock(b, styles.r, subblock221.val), LAMBDA e221 :
    Then(endSubblock(b, e221.r, subblock22.val), LAMBDA e22 :
    Then(endSubblock(b, e22.r, subblock2.val), LAMBDA e2 :
    Then(readSubblock(b, e2.r, 3), LAMBDA subblock3 :
    Then(readFloat64(b, subblock3.r), LAMBDA posX :
    Then(readFloat64(b, posX.r), LAMBDA posY :
    Then(endSubblock(b, posY.r, subblock3.val), LAMBDA e3 :
    Then(readFloat(b, e3.r, 4), LAMBDA width :
        Returned(width.r,
                 createRootTextBlock(blockId.val,
                     createText(CrdtSequence(textItems.val), styles.val,
                                posX.val, posY.val, width.val)))))))))))))))))))))))

\* The default branch of the switch: a block type the reader does not know
readUnknownBlock(b, r, blockInfo) ==
    Then(readBytes(b, r, bytesRemainingInBlock(r)), LAMBDA bytes :
    Then(endBlock(b, bytes.r), LAMBDA ended :
        Returned(ended.r,
                 createUnreadableBlock("Unknown block type", bytes.val, blockInfo))))

\* The body of the try: the switch on the block type, then endBlock.  The
\* files read here hold blocks of the types listed and of unknown types.
readBlockBody(b, r, blockInfo) ==
    IF blockInfo.blockType \notin KnownBlockTypes THEN readUnknownBlock(b, r, blockInfo)
    ELSE Then(CASE blockInfo.blockType = BlockType_MigrationInfo ->
                       readMigrationInfoBlock(b, r)
                [] blockInfo.blockType = BlockType_SceneTree ->
                       readSceneTreeBlock(b, r)
                [] blockInfo.blockType = BlockType_SceneGroupItem ->
                       readSceneGroupItemBlock(b, r)
                [] blockInfo.blockType = BlockType_SceneGlyphItem ->
                       readSceneGlyphItemBlock(b, r)
                [] blockInfo.blockType = BlockType_SceneTombstoneItem ->
                       readSceneTombstoneItemBlock(b, r)
                [] blockInfo.blockType = BlockType_SceneTextItem ->
                       readSceneTextItemBlock(b, r)
                [] blockInfo.blockType = BlockType_RootText ->
                       readRootTextBlock(b, r),
              LAMBDA block :
         Then(endBlock(b, block.r), LAMBDA ended : Returned(ended.r, block.val)))

\* The catch handler
readBlockCatch(b, r, blockInfo, e) ==
    Then(seek(b, r, blockInfo.offset), LAMBDA sought :
    Then(readBytes(b, sought.r, blockInfo.size), LAMBDA bytes :
    Then(endBlock(b, bytes.r), LAMBDA ended :
        Returned(ended.r, createUnreadableBlock(e, bytes.val, blockInfo)))))

\* readBlock(reader): val is the block, or null when no block is left
readBlock(b, r) ==
    Then(TaggedBlockReader_readBlock(b, r), LAMBDA blockInfo :
        IF blockInfo.val = [kind |-> "null"] THEN blockInfo
        ELSE With(readBlockBody(b, blockInfo.r, blockInfo.val), LAMBDA body :
                 IF body.err = "none" THEN body
                 ELSE readBlockCatch(b, body.r, blockInfo.val, body.err)))

(***************************************************************************)
(* The files handed to readBlocks                                          *)
(***************************************************************************)
U32LE(n) ==
    <<n % 256, (n \div 256) % 256, (n \div 65536) % 256, (n \div 16777216) % 256>>

\* An envelope declaring size bytes of payload, followed by bytes
Frame(size, reserved, blockType, bytes) ==
    U32LE(size) \o <<reserved, 1, 1, blockType>> \o bytes

FramePool ==
    { \* MigrationInfo: id:1 = (1, 2), bool:2 = true
      Frame(5, 0, BlockType_MigrationInfo, <<31, 1, 2, 33, 1>>),
      \* the first tag has index 2 where index 1 is expected
      Frame(5, 0, BlockType_MigrationInfo, <<47, 1, 2, 33, 1>>),
      \* the first tag has a wire type that does not exist
      Frame(5, 0, BlockType_MigrationInfo, <<18, 1, 2, 33, 1>>),
      \* one byte more than the grammar consumes
      Frame(6, 0, BlockType_MigrationInfo, <<31, 1, 2, 33, 1, 52>>),
      \* one byte less than the grammar consumes
      Frame(4, 0, BlockType_MigrationInfo, <<31, 1, 2, 33>>),
      \* SceneTree: id:1 = (0, 11), id:2 = (0, 11), bool:3, sub-block 4 { id:1 = (0, 1) }
      Frame(16, 0, BlockType_SceneTree,
            <<31, 0, 11, 47, 0, 11, 49, 1, 76, 3, 0, 0, 0, 31, 0, 1>>),
      \* the sub-block declares 2 bytes and its content takes 3
      Frame(16, 0, BlockType_SceneTree,
            <<31, 0, 11, 47, 0, 11, 49, 1, 76, 2, 0, 0, 0, 31, 0, 1>>),
      \* a block type the reader does not know
      Frame(4, 0, 254, <<222, 173, 190, 239>>),
      \* a reserved byte that is not zero
      Frame(5, 1, BlockType_MigrationInfo, <<31, 1, 2, 33, 1>>) }

RECURSIVE Concat(_)
Concat(ss) == IF ss = <<>> THEN <<>> ELSE Head(ss) \o Concat(Tail(ss))

Prefixes(s) == {SubSeq(s, 1, n) : n \in 0..Len(s)}

\* The header and up to MaxFrames frames, cut off at any byte; files with
\* one wrong header byte, followed by a block
Buffers ==
    UNION {Prefixes(HEADER_V6 \o Concat(fs)) :
              fs \in UNION {[1..n -> FramePool] : n \in 0..MaxFrames}}
    \cup {[HEADER_V6 EXCEPT ![i] = 82] \o tail :
              i \in {1, 22, Len(HEADER_V6)},
              tail \in {<<>>, Frame(4, 0, 254, <<222, 173, 190, 239>>)}}

(***************************************************************************)
(* The blocks buildTree is given                                           *)
(***************************************************************************)
Node1 == createCrdtId(0, 11)
Node2 == createCrdtId(0, 12)

\* Ids of groups that blocks create, describe and reference
GroupIdPool == {ROOT_ID, Node1, Node2}

\* Groups that item blocks name as parent
ParentPool == {ROOT_ID, Node1}

\* Ids of the items of child sequences
ChildIdPool == {createCrdtId(1, 2), createCrdtId(1, 10)}

Item(itemId, deletedLength, value) ==
    createCrdtSequenceItem(itemId, END_MARKER, END_MARKER, deletedLength, value)

SceneTreeBlocks ==
    {createSceneTreeBlock(n, n, FALSE, ROOT_ID) : n \in {Node1, Node2}}

\* The registers a TreeNodeBlock carries: without and with the anchor fields
TreeNodeGroups(n) ==
    {createGroupWith(n, CrdtSequence(<<>>),
                     createLwwValue(createCrdtId(1, 2), "L1"),
                     createLwwValue(createCrdtId(1, 2), TRUE),
                     Null, Null, Null, Null),
     createGroupWith(n, CrdtSequence(<<>>),
                     createLwwValue(createCrdtId(1, 10), "L2"),
                     createLwwValue(createCrdtId(1, 10), FALSE),
                     createLwwValue(createCrdtId(1, 10), createCrdtId(1, 2)),
                     createLwwValue(createCrdtId(1, 10), 1),
                     createLwwValue(createCrdtId(1, 10), 100),
                     createLwwValue(createCrdtId(1, 10), 50))}

TreeNodeBlocks ==
    {createTreeNodeBlock(g) : g \in UNION {TreeNodeGroups(n) : n \in GroupIdPool}}

\* A group item names a group by its id; one without a value is a tombstone
SceneGroupItemBlocks ==
    {createSceneGroupItemBlock(p, Item(i, 0, GroupRef(v))) :
        p \in ParentPool, i \in ChildIdPool, v \in GroupIdPool}
    \cup {createSceneGroupItemBlock(p, Item(createCrdtId(1, 2), 1, Null)) : p \in ParentPool}

SceneLineItemBlocks ==
    {createSceneLineItemBlock(p, Item(i, 0, [kind |-> "Line"])) :
        p \in ParentPool, i \in ChildIdPool}

SceneGlyphItemBlocks ==
    {createSceneGlyphItemBlock(p, Item(createCrdtId(1, 2), 0, [kind |-> "GlyphRange"])) :
        p \in ParentPool}

SceneTombstoneItemBlocks ==
    {createSceneTombstoneItemBlock(p, Item(createCrdtId(1, 2), 1, Null)) : p \in ParentPool}

RootTextBlocks ==
    {createRootTextBlock(createCrdtId(0, 0), [kind |-> "Text"])}

\* Blocks of a type buildTree has no branch for, an unreadable one among them
OtherBlocks ==
    SceneTombstoneItemBlocks \cup
    {createPageInfoBlock(1, 0, 0, 0, 0),
     createUnreadableBlock("Unknown block type 254", <<222, 173, 190, 239>>,
                           [offset |-> 51, size |-> 4, blockType |-> 254,
                            minVersion |-> 1, currentVersion |-> 1,
                            extraData |-> <<>>])}

\* What readBlock gives for a file that holds the header and one frame
FirstBlock(frame) ==
    readBlock(HEADER_V6 \o frame, [NewReader EXCEPT !.position = Len(HEADER_V6)])

\* The block types buildTree has a branch for
BuiltBlockTypes ==
    {BlockType_SceneTree, BlockType_TreeNode, BlockType_SceneGroupItem,
     BlockType_SceneLineItem, BlockType_SceneGlyphItem, BlockType_RootText}

\* UnreadableBlocks: those readBlock yields for the frames of FramePool, and
\* those its catch handler makes of a block of each type buildTree looks at
UnreadableBlocks ==
    {x.val : x \in {y \in {FirstBlock(frame) : frame \in FramePool} :
                        y.err = "none" /\ y.val.unreadable}}
    \cup {createUnreadableBlock("UnexpectedBlockError", <<0>>,
                                [offset |-> 51, size |-> 1, blockType |-> bt,
                                 minVersion |-> 1, currentVersion |-> 1,
                                 extraData |-> <<>>]) : bt \in BuiltBlockTypes}

(***************************************************************************)
(* buildTree as a state machine: one action per branch of its loop         *)
(***************************************************************************)
TreeInit ==
    /\ WriterIdle
    /\ PairIdle
    /\ SeqIdle
    /\ TopoIdle
    /\ ReaderIdle
    /\ CallIdle
    /\ nodes = NewTree.nodes
    /\ rootText = NewTree.rootText
    /\ lastBlock = [blockType |-> -1, unreadable |-> FALSE]
    /\ nblocks = 0
    /\ bstatus = "running"

\* The loop took block from the iterable and its body left tree t
Taken(t, block) ==
    /\ nodes' = t.nodes
    /\ rootText' = t.rootText
    /\ bstatus' = t.status
    /\ lastBlock' = block
    /\ nblocks' = nblocks + 1
    /\ UNCHANGED notTreeVars

CurrentTree == Tree(nodes, rootText, bstatus)

TreeSceneTreeBlock ==
    \E block \in SceneTreeBlocks :
        /\ bstatus = "running"
        /\ nblocks < MaxBlocks
        /\ Taken(ApplyBlock(CurrentTree, block), block)

TreeTreeNodeBlock ==
    \E block \in TreeNodeBlocks :
        /\ bstatus = "running"
        /\ nblocks < MaxBlocks
        /\ Taken(ApplyBlock(CurrentTree, block), block)

TreeSceneGroupItemBlock ==
    \E block \in SceneGroupItemBlocks :
        /\ bstatus = "running"
        /\ nblocks < MaxBlocks
        /\ Taken(ApplyBlock(CurrentTree, block), block)

TreeSceneItemBlock ==
    \E block \in SceneLineItemBlocks \cup SceneGlyphItemBlocks :
        /\ bstatus = "running"
        /\ nblocks < MaxBlocks
        /\ Taken(ApplyBlock(CurrentTree, block), block)

TreeRootTextBlock ==
    \E block \in RootTextBlocks :
        /\ bstatus = "running"
        /\ nblocks < MaxBlocks
        /\ Taken(ApplyBlock(CurrentTree, block), block)

TreeOtherBlock ==
    \E block \in OtherBlocks :
        /\ bstatus = "running"
        /\ nblocks < MaxBlocks
        /\ Taken(ApplyBlock(CurrentTree, block), block)

\* An UnreadableBlock: the type guards send it to the branch of its blockType
TreeUnreadableBlock ==
    \E block \in UnreadableBlocks :
        /\ bstatus = "running"
        /\ nblocks < MaxBlocks
        /\ Taken(ApplyBlock(CurrentTree, block), block)

\* The iterable is exhausted: buildTree returns
TreeReturn ==
    /\ bstatus = "running"
    /\ bstatus' = "done"
    /\ UNCHANGED <<nodes, rootText, lastBlock, nblocks>>
    /\ UNCHANGED notTreeVars

TreeNext ==
    \/ TreeSceneTreeBlock
    \/ TreeTreeNodeBlock
    \/ TreeSceneGroupItemBlock
    \/ TreeSceneItemBlock
    \/ TreeRootTextBlock
    \/ TreeOtherBlock
    \/ TreeUnreadableBlock
    \/ TreeReturn

TreeSpec == TreeInit /\ [][TreeNext]_vars

(***************************************************************************)
(* Properties of buildTree                                                 *)
(***************************************************************************)
NodeKeys(n) == {n[i].k : i \in 1..Len(n)}

\* The places (parent key, item key) where group g is the value of a child
Appearances(n, g) ==
    UNION { { <<n[p].k, n[p].v.children[i].k>> :
                i \in {j \in 1..Len(n[p].v.children) :
                          n[p].v.children[j].v.value = GroupRef(g)} } :
            p \in 1..Len(n) }

\* The keys of the groups that are values of children of the group at key k
ChildGroups(n, k) ==
    LET ch == MapGet(n, k).children
    IN  {crdtIdToString(ch[i].v.value.ref) :
            i \in {j \in 1..Len(ch) : ch[j].v.value.kind = "Group"}}

\* The groups reachable from the groups of frontier through containment
RECURSIVE ReachFrom(_, _, _)
ReachFrom(n, frontier, seen) ==
    LET next == UNION {ChildGroups(n, k) : k \in frontier}
    IN  IF next \subseteq seen THEN seen
        ELSE ReachFrom(n, next \ seen, seen \cup next)

Descendants(n, k) == ReachFrom(n, {k}, {})

\* C7: after buildTree returned, every group other than the root is the
\* value of exactly one child item over all groups of the tree.
C7_GroupAppearsOnce ==
    bstatus = "done" =>
        \A i \in 1..Len(nodes) :
            nodes[i].v.nodeId # ROOT_ID =>
                Cardinality(Appearances(nodes, nodes[i].v.nodeId)) = 1

\* C8: a line, glyph or tombstone item block whose parent_id names no group
\* of the tree makes buildTree raise an error.
C8_MissingParentRaises ==
    ( /\ nblocks > 0
      /\ ~lastBlock.unreadable
      /\ lastBlock.blockType \in {BlockType_SceneLineItem, BlockType_SceneGlyphItem,
                                  BlockType_SceneTombstoneItem}
      /\ ~TreeHas(nodes, lastBlock.parentId) )
    => bstatus = "error"

\* C9: a TreeNodeBlock for a node that is not in the tree creates the node
\* with an empty child sequence and the block's registers, and a later
\* SceneTreeBlock for the node gives the tree that the two blocks give in
\* the other order.
C9_TreeNodeCreatesGroup ==
    [][ ( /\ nblocks' = nblocks + 1
          /\ isTreeNodeBlock(lastBlock')
          /\ ~lastBlock'.unreadable
          /\ ~TreeHas(nodes, lastBlock'.group.nodeId) )
        => LET n == lastBlock'.group.nodeId
               st == createSceneTreeBlock(n, n, FALSE, ROOT_ID)
           IN  /\ bstatus' = "running"
               /\ TreeHas(nodes', n)
               /\ TreeGet(nodes', n) = lastBlock'.group
               /\ ApplyBlock(Tree(nodes', rootText', bstatus'), st)
                      = buildTree(CurrentTree, <<st, lastBlock'>>) ]_vars

\* C10: after buildTree, no group is reachable from itself through the
\* containment relation of the child sequences.
C10_GroupsAcyclic ==
    bstatus = "done" =>
        \A k \in NodeKeys(nodes) : k \notin Descendants(nodes, k)

\* C11: a block that is not a SceneTree, TreeNode, SceneGroupItem,
\* SceneLineItem, SceneGlyphItem or RootText block, and every UnreadableBlock
\* whatever its blockType, leaves the groups, their child sequences and
\* registers and the root text as they were, and buildTree raises no error.
C11_OtherBlocksIgnored ==
    [][ ( /\ nblocks' = nblocks + 1
          /\ (lastBlock'.unreadable \/ lastBlock'.blockType \notin BuiltBlockTypes) )
        => ( /\ nodes' = nodes
             /\ rootText' = rootText
             /\ bstatus' = "running" ) ]_vars

(***************************************************************************)
(* readBlocks as a state machine: one action per call it makes             *)
(***************************************************************************)
ReaderInit ==
    /\ WriterIdle
    /\ PairIdle
    /\ SeqIdle
    /\ TopoIdle
    /\ TreeIdle
    /\ CallIdle
    /\ buffer \in Buffers
    /\ position = NewReader.position
    /\ currentBlock = NewReader.currentBlock
    /\ warnedAboutExtraData = NewReader.warned
    /\ warnings = NewReader.warnings
    /\ yielded = <<>>
    /\ rstatus = "start"

CurrentReader ==
    [position |-> position, currentBlock |-> currentBlock,
     warned |-> warnedAboutExtraData, warnings |-> warnings]

\* The reader is left as r
ReaderLeft(r) ==
    /\ position' = r.position
    /\ currentBlock' = r.currentBlock
    /\ warnedAboutExtraData' = r.warned
    /\ warnings' = r.warnings
    /\ UNCHANGED buffer
    /\ UNCHANGED notReaderVars

\* reader.readHeader()
ReadHeader ==
    /\ rstatus = "start"
    /\ \E h \in {readHeader(buffer, CurrentReader)} :
           /\ ReaderLeft(h.r)
           /\ rstatus' = IF h.err = "none" THEN "reading" ELSE "error"
    /\ UNCHANGED yielded

\* readBlock(reader) returned a block: yield it
ReadBlockYield ==
    /\ rstatus = "reading"
    /\ \E x \in {readBlock(buffer, CurrentReader)} :
           /\ x.err = "none"
           /\ x.val # [kind |-> "null"]
           /\ ReaderLeft(x.r)
           /\ yielded' = Append(yielded, x.val)
    /\ UNCHANGED rstatus

\* readBlock(reader) returned null: the generator finishes
ReadBlockEnd ==
    /\ rstatus = "reading"
    /\ \E x \in {readBlock(buffer, CurrentReader)} :
           /\ x.err = "none"
           /\ x.val = [kind |-> "null"]
           /\ ReaderLeft(x.r)
    /\ rstatus' = "done"
    /\ UNCHANGED yielded

\* readBlock(reader) threw: the error leaves the generator
ReadBlockThrow ==
    /\ rstatus = "reading"
    /\ \E x \in {readBlock(buffer, CurrentReader)} :
           /\ x.err # "none"
           /\ ReaderLeft(x.r)
    /\ rstatus' = "error"
    /\ UNCHANGED yielded

ReaderNext ==
    \/ ReadHeader
    \/ ReadBlockYield
    \/ ReadBlockEnd
    \/ ReadBlockThrow

ReaderSpec == ReaderInit /\ [][ReaderNext]_vars

(***************************************************************************)
(* Properties of readBlock                                                 *)
(***************************************************************************)
\* The envelope at the reader's position, when one is there in full with a
\* zero reserved byte
EnvelopeHere ==
    /\ position + 8 <= Len(buffer)
    /\ buffer[position + 5] = 0

\* The block at the reader's position is of an unknown type or its decoding
\* raises an error
BadBlockHere ==
    \E blockInfo \in {TaggedBlockReader_readBlock(buffer, CurrentReader)} :
        \/ blockInfo.val.blockType \notin KnownBlockTypes
        \/ readBlockBody(buffer, blockInfo.r, blockInfo.val).err # "none"

\* C1: a top-level block of an unknown type, or whose payload fails to
\* decode, is yielded as an UnreadableBlock holding the declared payload
\* bytes; the reader is left at the next envelope with no active frame and
\* the stream is not aborted.
C1_BadBlockIsUnreadable ==
    [][ (rstatus = "reading" /\ EnvelopeHere /\ BadBlockHere)
        => \E blockInfo \in {TaggedBlockReader_readBlock(buffer, CurrentReader).val} :
               /\ rstatus' = "reading"
               /\ Len(yielded') = Len(yielded) + 1
               /\ yielded'[Len(yielded')] =
                      createUnreadableBlock(yielded'[Len(yielded')].error,
                          SubSeq(buffer, blockInfo.offset + 1,
                                 blockInfo.offset + blockInfo.size),
                          blockInfo)
               /\ position' = blockInfo.offset + blockInfo.size
               /\ currentBlock' = [kind |-> "null"] ]_vars

(***************************************************************************)
(* Calls on one stream.  A DataStream wrapped in a TaggedBlockReader is    *)
(* given a sequence of calls; call records the last one: its name, its     *)
(* arguments, the reader before it and its outcome.  A write is made on a  *)
(* fresh stream for writing, whose bytes then become the stream read.      *)
(***************************************************************************)
\* The streams: wire fragments, cut at every byte
CallStreams ==
    { <<31, 1, 5>>,                         \* tag (1, ID), id 1:5
      <<17, 1>>,                            \* tag (1, Byte1), one byte
      <<20, 7, 0, 0, 0>>,                   \* tag (1, Byte4), four bytes
      <<24, 0, 0, 0, 0, 0, 0, 0, 64>>,      \* tag (1, Byte8), eight bytes
      <<28, 2, 0, 0, 0, 17, 1, 9>>,         \* tag (1, Length4), sub-block of 2
      <<18, 1>>,                            \* wire type 2
      <<143, 2, 1, 5>>,                     \* tag (16, ID) in two bytes
      <<159, 0, 1, 5>>,                     \* tag (1, ID) in two bytes
      <<159, 128, 128, 128, 16, 1, 5>>,     \* tag (2^28 + 1, ID) in five bytes
      <<172, 2>>,                           \* varuint 300
      <<1, 128, 1>>,                        \* id 1:128
      <<2, 0, 0, 0, 0, 1, 1, 13, 7, 8, 9>>, \* envelope, block of 2, one more
      <<1, 0, 0, 0, 1, 1, 1, 13, 7>> }      \* envelope, reserved byte 1

CallBuffers == UNION {Prefixes(s) : s \in CallStreams}

TagIndexes == {1, 16}

\* The scopes handed to endSubblock
Scopes ==
    {[offset |-> o, size |-> n, extraData |-> <<>>] : o \in {0, 5}, n \in {0, 2, 3}}

\* The numbers handed to writeVaruint and writeCrdtId
Pow2(k) == Num(FALSE, {k})

NumPool ==
    {NumOfInt(i) : i \in {-1, 0, 1, 127, 128, 300, 16384, 2147483647}}
        \cup {Pow2(31), Num(FALSE, 0..31), Pow2(32), Pow2(53), Num(FALSE, 0..63),
              Pow2(64)}

\* The authors handed to writeCrdtId
AuthorPool == {NumOfInt(i) : i \in {-1, 0, 1, 255, 256}}

Float32Default == [kind |-> "float32", bytes |-> <<0, 0, 0, 0>>]

Float64Default == [kind |-> "float64", bytes |-> <<0, 0, 0, 0, 0, 0, 0, 0>>]

NoWrite == [kind |-> "null"]

CallInit ==
    /\ WriterIdle
    /\ PairIdle
    /\ SeqIdle
    /\ TopoIdle
    /\ TreeIdle
    /\ buffer \in CallBuffers
    /\ position = NewReader.position
    /\ currentBlock = NewReader.currentBlock
    /\ warnedAboutExtraData = NewReader.warned
    /\ warnings = NewReader.warnings
    /\ yielded = <<>>
    /\ rstatus = "calls"
    /\ call = [op |-> "none"]
    /\ written = NoWrite
    /\ ncalls = 0

\* The call op(args) was made on the reader and had the outcome x
Called(op, args, x) ==
    /\ call' = [op |-> op, args |-> args, before |-> CurrentReader,
                err |-> x.err, val |-> x.val]
    /\ position' = x.r.position
    /\ currentBlock' = x.r.currentBlock
    /\ warnedAboutExtraData' = x.r.warned
    /\ warnings' = x.r.warnings
    /\ ncalls' = ncalls + 1

\* Another call can be made on the stream being read
CanCall == rstatus = "calls" /\ ncalls < MaxCalls

\* Another call can be made, and every four-byte integer of the stream is
\* below 2^31
ReadStream == CanCall /\ \A i \in 4..Len(buffer) : buffer[i] < 128

CallReadUint8 ==
    /\ CanCall
    /\ Called("readUint8", <<>>, readUint8(buffer, CurrentReader))
    /\ UNCHANGED <<buffer, written>>
    /\ UNCHANGED notCallVars

CallReadUint16 ==
    /\ CanCall
    /\ Called("readUint16", <<>>, readUint16(buffer, CurrentReader))
    /\ UNCHANGED <<buffer, written>>
    /\ UNCHANGED notCallVars

CallReadUint32 ==
    /\ ReadStream
    /\ Called("readUint32", <<>>, readUint32(buffer, CurrentReader))
    /\ UNCHANGED <<buffer, written>>
    /\ UNCHANGED notCallVars

CallReadBool ==
    /\ CanCall
    /\ Called("readBool", <<>>, readBool(buffer, CurrentReader))
    /\ UNCHANGED <<buffer, written>>
    /\ UNCHANGED notCallVars

CallReadFloat32 ==
    /\ CanCall
    /\ Called("readFloat32", <<>>, readFloat32(buffer, CurrentReader))
    /\ UNCHANGED <<buffer, written>>
    /\ UNCHANGED notCallVars

CallReadFloat64 ==
    /\ CanCall
    /\ Called("readFloat64", <<>>, readFloat64(buffer, CurrentReader))
    /\ UNCHANGED <<buffer, written>>
    /\ UNCHANGED notCallVars

CallReadBytes ==
    \E n \in 0..3 :
        /\ CanCall
        /\ Called("readBytes", <<n>>, readBytes(buffer, CurrentReader, n))
        /\ UNCHANGED <<buffer, written>>
        /\ UNCHANGED notCallVars

CallReadVaruint ==
    /\ CanCall
    /\ Called("readVaruint", <<>>, readVaruint(buffer, CurrentReader))
    /\ UNCHANGED <<buffer, written>>
    /\ UNCHANGED notCallVars

CallReadCrdtId ==
    /\ CanCall
    /\ Called("readCrdtId", <<>>, readCrdtId(buffer, CurrentReader))
    /\ UNCHANGED <<buffer, written>>
    /\ UNCHANGED notCallVars

CallCheckTag ==
    \E index \in TagIndexes, tagType \in TagTypes :
        /\ CanCall
        /\ Called("checkTag", <<index, tagType>>,
                  checkTag(buffer, CurrentReader, index, tagType))
        /\ UNCHANGED <<buffer, written>>
        /\ UNCHANGED notCallVars

CallReadTag ==
    \E index \in TagIndexes, tagType \in TagTypes :
        /\ CanCall
        /\ Called("readTag", <<index, tagType>>,
                  readTag(buffer, CurrentReader, index, tagType))
        /\ UNCHANGED <<buffer, written>>
        /\ UNCHANGED notCallVars

CallReadIdOptional ==
    \E index \in TagIndexes, defaultValue \in {createCrdtId(0, 0)} :
        /\ CanCall
        /\ Called("readIdOptional", <<index, defaultValue>>,
                  readIdOptional(buffer, CurrentReader, index, defaultValue))
        /\ UNCHANGED <<buffer, written>>
        /\ UNCHANGED notCallVars

CallReadBoolOptional ==
    \E index \in TagIndexes, defaultValue \in {TRUE} :
        /\ CanCall
        /\ Called("readBoolOptional", <<index, defaultValue>>,
                  readBoolOptional(buffer, CurrentReader, index, defaultValue))
        /\ UNCHANGED <<buffer, written>>
        /\ UNCHANGED notCallVars

CallReadByteOptional ==
    \E index \in TagIndexes, defaultValue \in {200} :
        /\ CanCall
        /\ Called("readByteOptional", <<index, defaultValue>>,
                  readByteOptional(buffer, CurrentReader, index, defaultValue))
        /\ UNCHANGED <<buffer, written>>
        /\ UNCHANGED notCallVars

CallReadIntOptional ==
    \E index \in TagIndexes, defaultValue \in {200} :
        /\ ReadStream
        /\ Called("readIntOptional", <<index, defaultValue>>,
                  readIntOptional(buffer, CurrentReader, index, defaultValue))
        /\ UNCHANGED <<buffer, written>>
        /\ UNCHANGED notCallVars

CallReadFloatOptional ==
    \E index \in TagIndexes, defaultValue \in {Float32Default} :
        /\ CanCall
        /\ Called("readFloatOptional", <<index, defaultValue>>,
                  readFloatOptional(buffer, CurrentReader, index, defaultValue))
        /\ UNCHANGED <<buffer, written>>
        /\ UNCHANGED notCallVars

CallReadDoubleOptional ==
    \E index \in TagIndexes, defaultValue \in {Float64Default} :
        /\ CanCall
        /\ Called("readDoubleOptional", <<index, defaultValue>>,
                  readDoubleOptional(buffer, CurrentReader, index, defaultValue))
        /\ UNCHANGED <<buffer, written>>
        /\ UNCHANGED notCallVars

\* TaggedBlockReader.readBlock: the envelope of a top-level block
CallReadBlock ==
    /\ ReadStream
    /\ Called("readBlock", <<>>, TaggedBlockReader_readBlock(buffer, CurrentReader))
    /\ UNCHANGED <<buffer, written>>
    /\ UNCHANGED notCallVars

CallEndBlock ==
    /\ CanCall
    /\ Called("endBlock", <<currentBlock>>, endBlock(buffer, CurrentReader))
    /\ UNCHANGED <<buffer, written>>
    /\ UNCHANGED notCallVars

CallReadSubblock ==
    \E index \in TagIndexes :
        /\ ReadStream
        /\ Called("readSubblock", <<index>>, readSubblock(buffer, CurrentReader, index))
        /\ UNCHANGED <<buffer, written>>
        /\ UNCHANGED notCallVars

CallEndSubblock ==
    \E subblock \in Scopes :
        /\ CanCall
        /\ Called("endSubblock", <<subblock>>,
                  endSubblock(buffer, CurrentReader, subblock))
        /\ UNCHANGED <<buffer, written>>
        /\ UNCHANGED notCallVars

\* stream = DataStream.forWriting(); stream.writeVaruint(value); the bytes
\* of the stream are then read from their start
CallWriteVaruint ==
    \E value \in NumPool :
        \E x \in {writeVaruint(<<>>, value)} :
            /\ CanCall
            /\ ncalls = 0
            /\ buffer = <<>>
            /\ buffer' = x.w
            /\ written' = [kind |-> "varuint", value |-> value, err |-> x.err]
            /\ call' = [op |-> "writeVaruint", args |-> <<value>>,
                        before |-> CurrentReader, err |-> x.err, val |-> Undefined]
            /\ ncalls' = ncalls + 1
            /\ UNCHANGED <<position, currentBlock, warnedAboutExtraData, warnings>>
            /\ UNCHANGED notCallVars

CallWriteCrdtId ==
    \E part1 \in AuthorPool, part2 \in NumPool :
        \E x \in {writeCrdtId(<<>>, createCrdtId(part1, part2))} :
            /\ CanCall
            /\ ncalls = 0
            /\ buffer = <<>>
            /\ buffer' = x.w
            /\ written' = [kind |-> "crdtId", value |-> createCrdtId(part1, part2),
                           err |-> x.err]
            /\ call' = [op |-> "writeCrdtId", args |-> <<createCrdtId(part1, part2)>>,
                        before |-> CurrentReader, err |-> x.err, val |-> Undefined]
            /\ ncalls' = ncalls + 1
            /\ UNCHANGED <<position, currentBlock, warnedAboutExtraData, warnings>>
            /\ UNCHANGED notCallVars

CallNext ==
    \/ CallReadUint8
    \/ CallReadUint16
    \/ CallReadUint32
    \/ CallReadBool
    \/ CallReadFloat32
    \/ CallReadFloat64
    \/ CallReadBytes
    \/ CallReadVaruint
    \/ CallReadCrdtId
    \/ CallCheckTag
    \/ CallReadTag
    \/ CallReadIdOptional
    \/ CallReadBoolOptional
    \/ CallReadByteOptional
    \/ CallReadIntOptional
    \/ CallReadFloatOptional
    \/ CallReadDoubleOptional
    \/ CallReadBlock
    \/ CallEndBlock
    \/ CallReadSubblock
    \/ CallEndSubblock
    \/ CallWriteVaruint
    \/ CallWriteCrdtId

CallSpec == CallInit /\ [][CallNext]_vars

(***************************************************************************)
(* Properties of the calls.                                                *)
(***************************************************************************)
\* The last call was op
LastCall(op) == call.op = op

\* The last call read back, from its first byte, what a successful write of
\* the given kind produced
ReadBack(op, kind) ==
    /\ LastCall(op)
    /\ written.kind = kind
    /\ written.err = "none"
    /\ call.before.position = 0

\* 0 <= value <= 2^32 - 1
InUint32(value) == ~value.neg /\ value.bits \subseteq 0..31

\* ceil(bits(n) / 7), one byte for 0
MinVaruintLength(value) ==
    IF value.bits = {} THEN 1
    ELSE ((CHOOSE i \in value.bits : \A j \in value.bits : j <= i) + 7) \div 7

\* C12: for every n in [0, 2^32 - 1], readVaruint of the bytes written by
\* writeVaruint(n) returns n and consumes exactly those bytes, and the bytes
\* are the minimum number: ceil(bits(n)/7) of them, the last one without a
\* continuation bit and non-zero unless n = 0.
C12_VaruintRoundTrip ==
    (ReadBack("readVaruint", "varuint") /\ InUint32(written.value))
    => /\ call.err = "none"
       /\ NumOfInt(call.val) = written.value
       /\ position = Len(buffer)
       /\ Len(buffer) = MinVaruintLength(written.value)
       /\ buffer[Len(buffer)] < 128
       /\ (buffer[Len(buffer)] = 0 => written.value.bits = {})

\* author outside [0, 255] or counter outside [0, 2^64)
IdOutOfRange(id) ==
    \/ IsNegative(id.part1)
    \/ AtLeastPow2(id.part1, 8)
    \/ IsNegative(id.part2)
    \/ AtLeastPow2(id.part2, 64)

\* C13: writeCrdtId never silently corrupts its output: an id whose author
\* is outside [0, 255] or whose counter is outside [0, 2^64) makes it fail
\* with nothing written, and any other id is read back by readCrdtId as it
\* was written; writeVaruint of a negative number fails with nothing written.
C13_NoSilentCorruption ==
    /\ (LastCall("writeCrdtId") /\ IdOutOfRange(written.value))
       => (call.err # "none" /\ buffer = <<>>)
    /\ (LastCall("writeVaruint") /\ IsNegative(written.value))
       => (call.err # "none" /\ buffer = <<>>)
    /\ (/\ LastCall("readCrdtId")
        /\ written.kind = "crdtId"
        /\ call.before.position = 0
        /\ ~IdOutOfRange(written.value))
       => /\ written.err = "none"
          /\ call.err = "none"
          /\ NumOfInt(call.val.part1) = written.value.part1
          /\ NumOfInt(call.val.part2) = written.value.part2

\* The varuint that starts after position p, as the unbounded LEB128 number
\* it encodes: the set of its one bits, and its length; ok is FALSE when
\* the input ends inside it
RECURSIVE VaruintAt(_, _)
VaruintAt(b, p) ==
    IF p + 1 > Len(b) THEN [ok |-> FALSE, bits |-> {}, len |-> 0]
    ELSE IF b[p + 1] < 128 THEN [ok |-> TRUE, bits |-> Bits7(b[p + 1]), len |-> 1]
    ELSE With(VaruintAt(b, p + 1), LAMBDA rest :
             [ok |-> rest.ok,
              bits |-> Bits7(b[p + 1] % 128) \cup {i + 7 : i \in rest.bits},
              len |-> rest.len + 1])

\* The next tag after position p is whole and is (index, tagType)
NextTagIs(b, p, index, tagType) ==
    /\ VaruintAt(b, p).ok
    /\ VaruintAt(b, p).bits = NumOfInt(16 * index + tagType).bits

\* C14: checkTag never changes the stream position, whatever the stream
\* holds at the position (a matching tag, a mismatching one, an unrecognised
\* wire type, a tag of several bytes, the end of the input), and it returns
\* true exactly when the next tag has the expected index and wire type.
C14_CheckTagPeeks ==
    LastCall("checkTag")
    => /\ call.err = "none"
       /\ position = call.before.position
       /\ call.val = NextTagIs(buffer, call.before.position, call.args[1], call.args[2])

\* C15: readTag consumes the tag when index and wire type both match; on
\* every failure (index mismatch, wire-type mismatch, unrecognised wire type,
\* truncated tag) it raises an error and the position is restored to its
\* value before the call.
C15_ReadTagRestores ==
    LastCall("readTag")
    => IF NextTagIs(buffer, call.before.position, call.args[1], call.args[2])
       THEN /\ call.err = "none"
            /\ position = call.before.position + VaruintAt(buffer, call.before.position).len
       ELSE /\ call.err # "none"
            /\ position = call.before.position

OptionalReads ==
    {"readIdOptional", "readBoolOptional", "readByteOptional",
     "readIntOptional", "readFloatOptional", "readDoubleOptional"}

\* The wire type of the tag an optional read expects
WireTypeOf(op) ==
    CASE op = "readIdOptional" -> TagType_ID
      [] op \in {"readBoolOptional", "readByteOptional"} -> TagType_Byte1
      [] op \in {"readIntOptional", "readFloatOptional"} -> TagType_Byte4
      [] op = "readDoubleOptional" -> TagType_Byte8

\* The read of the payload that follows the tag, from the reader r
PayloadRead(op, b, r) ==
    CASE op = "readIdOptional" -> readCrdtId(b, r)
      [] op = "readBoolOptional" -> readBool(b, r)
      [] op = "readByteOptional" -> readUint8(b, r)
      [] op = "readIntOptional" -> readUint32(b, r)
      [] op = "readFloatOptional" -> readFloat32(b, r)
      [] op = "readDoubleOptional" -> readFloat64(b, r)

\* The number of bytes of the payload after position q, -1 when the input
\* ends inside it
PayloadLength(op, b, q) ==
    CASE op = "readIdOptional" ->
             IF q + 1 <= Len(b) /\ VaruintAt(b, q + 1).ok
             THEN 1 + VaruintAt(b, q + 1).len ELSE -1
      [] op \in {"readBoolOptional", "readByteOptional"} ->
             IF q + 1 <= Len(b) THEN 1 ELSE -1
      [] op \in {"readIntOptional", "readFloatOptional"} ->
             IF q + 4 <= Len(b) THEN 4 ELSE -1
      [] op = "readDoubleOptional" ->
             IF q + 8 <= Len(b) THEN 8 ELSE -1

\* C16: an optional tagged read either returns the decoded value, having
\* consumed tag and payload, or, when the expected tag is not next or the
\* input ends before the tag or inside the payload, returns the default it
\* was given with the position unchanged.
C16_OptionalReadOrDefault ==
    (call.op \in OptionalReads)
    => \E p \in {call.before.position} :
       \E q \in {p + VaruintAt(buffer, p).len} :
           /\ call.err = "none"
           /\ IF /\ NextTagIs(buffer, p, call.args[1], WireTypeOf(call.op))
                 /\ PayloadLength(call.op, buffer, q) >= 0
              THEN /\ position = q + PayloadLength(call.op, buffer, q)
                   /\ call.val = PayloadRead(call.op, buffer,
                                     [call.before EXCEPT !.position = q]).val
              ELSE /\ position = p
                   /\ call.val = call.args[2]

DataStreamReads ==
    {"readUint8", "readUint16", "readUint32", "readBool", "readFloat32",
     "readFloat64", "readBytes", "readVaruint", "readCrdtId"}

\* The read op(args) made at position p would pass the end of b
PassesEnd(op, args, b, p) ==
    CASE op \in {"readUint8", "readBool"} -> p + 1 > Len(b)
      [] op = "readUint16" -> p + 2 > Len(b)
      [] op \in {"readUint32", "readFloat32"} -> p + 4 > Len(b)
      [] op = "readFloat64" -> p + 8 > Len(b)
      [] op = "readBytes" -> p + args[1] > Len(b)
      [] op = "readVaruint" -> ~VaruintAt(b, p).ok
      [] op = "readCrdtId" -> p + 1 > Len(b) \/ ~VaruintAt(b, p + 1).ok

\* C17: no partial reads: a DataStream read that would pass the end of the
\* buffer fails with the end-of-input error and leaves the position where
\* it was before the call.
C17_NoPartialReads ==
    (/\ call.op \in DataStreamReads
     /\ PassesEnd(call.op, call.args, buffer, call.before.position))
    => (call.err = "EOF" /\ position = call.before.position)

\* The last call ended a scope: endSubblock(scope), or endBlock() inside a
\* block
ScopeEnded ==
    /\ call.op \in {"endSubblock", "endBlock"}
    /\ call.args[1] # [kind |-> "null"]

\* offset + length of the scope the last call ended
ScopeEnd == call.args[1].offset + call.args[1].size

\* C18, as claimed: a scope ended with the position beyond offset+length
\* fails with BlockOverflow; otherwise the call succeeds, the position
\* becomes offset+length, and the bytes from the old position to
\* offset+length are the scope's extraData (none when all was consumed).
C18_ScopeAlwaysCloses ==
    ScopeEnded
    => IF call.before.position > ScopeEnd
       THEN call.err = "BlockOverflowError"
       ELSE /\ call.err = "none"
            /\ position = ScopeEnd
            /\ call.val = SubSeq(buffer, call.before.position + 1, ScopeEnd)

\* C18, amended: as above when the scope lies within the buffer; a scope
\* that is not overrun but reaches beyond the end of the buffer fails with
\* the end-of-input error and the position stays where it was.
C18_ScopeDiscipline ==
    ScopeEnded
    => IF call.before.position > ScopeEnd
       THEN /\ call.err = "BlockOverflowError"
            /\ position = call.before.position
       ELSE IF ScopeEnd > Len(buffer)
       THEN /\ call.err = "EOF"
            /\ position = call.before.position
       ELSE /\ call.err = "none"
            /\ position = ScopeEnd
            /\ call.val = SubSeq(buffer, call.before.position + 1, ScopeEnd)

\* A scope is ended with two bytes unread: they are captured and the
\* position is at the end of the scope
C18_Witness ==
    /\ ScopeEnded
    /\ call.before.position < ScopeEnd
    /\ call.err = "none"
    /\ position = ScopeEnd
    /\ Len(call.val) = 2

\* The last call ended a scope with unread bytes
UnderRead == ScopeEnded /\ call.before.position < ScopeEnd

BadHeader ==
    \/ Len(buffer) < Len(HEADER_V6)
    \/ \E i \in 1..Len(HEADER_V6) : buffer[i] # HEADER_V6[i]

\* Between 1 and 7 bytes remain where an envelope should start
TruncatedEnvelope ==
    /\ position + 1 <= Len(buffer)
    /\ position + 8 > Len(buffer)

\* A whole envelope with a reserved byte that is not zero is next
BadReservedByte ==
    /\ position + 8 <= Len(buffer)
    /\ buffer[position + 5] # 0

\* C20: an error outside any block aborts the stream: readBlocks raises an
\* error, instead of ending or yielding a block, when the first 43 bytes
\* differ from the header, when an envelope has a non-zero reserved byte and
\* when between 1 and 7 bytes remain where an envelope should start.
C20_ErrorsOutsideBlocksAbort ==
    [][ /\ (rstatus = "start" /\ BadHeader)
           => (rstatus' = "error" /\ yielded' = yielded)
        /\ (rstatus = "reading" /\ (BadReservedByte \/ TruncatedEnvelope))
           => (rstatus' = "error" /\ yielded' = yielded) ]_vars

\* The number of complete blocks (a whole envelope with a zero reserved
\* byte and the payload it declares) that make up b from position p to its
\* end; -1 when b is not made of complete blocks
RECURSIVE CompleteBlocks(_, _)
CompleteBlocks(b, p) ==
    IF p = Len(b) THEN 0
    ELSE IF p + 8 > Len(b) \/ b[p + 5] # 0 THEN -1
    ELSE With(p + 8 + b[p + 1] + 256 * b[p + 2], LAMBDA next :
             IF b[p + 3] # 0 \/ b[p + 4] # 0 \/ next > Len(b) THEN -1
             ELSE With(CompleteBlocks(b, next), LAMBDA rest :
                      IF rest < 0 THEN -1 ELSE rest + 1))

\* The buffer is the header followed by whole blocks
WholeFile ==
    /\ ~BadHeader
    /\ CompleteBlocks(buffer, Len(HEADER_V6)) >= 0

\* C21: when the input is the header followed by k >= 0 complete blocks,
\* readBlocks yields exactly k blocks and then finishes without an error;
\* for k = 0 it yields nothing and buildTree gives a tree that holds the
\* root group (0, 1) alone, without children and without root text.
C21_CleanEndAtBoundary ==
    WholeFile
    => \E k \in {CompleteBlocks(buffer, Len(HEADER_V6))} :
          /\ rstatus # "error"
          /\ rstatus = "start" => yielded = <<>>
          /\ rstatus = "reading"
             => /\ Len(yielded) <= k
                /\ CompleteBlocks(buffer, position) = k - Len(yielded)
          /\ rstatus = "done"
             => /\ Len(yielded) = k
                /\ position = Len(buffer)
                /\ k = 0
                   => \E t \in {buildTree(NewTree, yielded)} :
                         /\ yielded = <<>>
                         /\ t.status = "running"
                         /\ t.rootText = Null
                         /\ Len(t.nodes) = 1
                         /\ TreeHas(t.nodes, ROOT_ID)
                         /\ TreeGet(t.nodes, ROOT_ID).nodeId = ROOT_ID
                         /\ TreeGet(t.nodes, ROOT_ID).children = CrdtSequence(<<>>)

\* A file of MaxFrames complete blocks has been read to its end
C21_Witness ==
    /\ WholeFile
    /\ rstatus = "done"
    /\ Len(yielded) = MaxFrames

(***************************************************************************)
(* Calls of add on one CrdtSequence                                        *)
(***************************************************************************)
\* The items added: three ids, two values each, with and without a tombstone
SeqItemPool ==
    {createCrdtSequenceItem(i, END_MARKER, END_MARKER, 0, [kind |-> "Line", n |-> v]) :
        i \in IdPool, v \in 1..2}

\* new CrdtSequence()
SeqInit ==
    /\ WriterIdle
    /\ PairIdle
    /\ TopoIdle
    /\ TreeIdle
    /\ ReaderIdle
    /\ seqItems = <<>>
    /\ call = [op |-> "none"]
    /\ written = [kind |-> "null"]
    /\ ncalls = 0

\* seq.add(item)
SeqAdd ==
    \E item \in SeqItemPool :
        \E added \in {add(seqItems, item)} :
            /\ ncalls < MaxAdds
            /\ seqItems' = added.seq
            /\ call' = [op |-> "add", args |-> <<item>>, before |-> seqItems,
                        err |-> IF added.ok THEN "none" ELSE "Error: Already have item"]
            /\ ncalls' = ncalls + 1
            /\ UNCHANGED <<topoVars, treeVars, readerVars, written, pairVars, writerVars>>

SeqNext == SeqAdd

SeqSpec == SeqInit /\ [][SeqNext]_vars

\* CrdtSequence.size
size(seq) == Len(seq)

\* An item with the id is among the items of the sequence
Present(seq, id) == \E i \in 1..Len(seq) : crdtIdEquals(seq[i].v.itemId, id)

\* C22: add(item) fails when an item with the same id is present and then
\* leaves the sequence as it was (same size, the earlier item and its value
\* still returned); otherwise it succeeds, the size grows by one and get of
\* the id returns the item's value.  So ids stay unique within a sequence.
C22_AddKeepsIdsUnique ==
    /\ LastCall("add")
       => \E item \in {call.args[1]} :
             IF Present(call.before, item.itemId)
             THEN /\ call.err # "none"
                  /\ seqItems = call.before
                  /\ size(seqItems) = size(call.before)
                  /\ get(seqItems, item.itemId) = get(call.before, item.itemId)
             ELSE /\ call.err = "none"
                  /\ size(seqItems) = size(call.before) + 1
                  /\ get(seqItems, item.itemId) = item.value
    /\ \A i, j \in 1..Len(seqItems) :
           i # j => ~crdtIdEquals(seqItems[i].v.itemId, seqItems[j].v.itemId)

\* An add of an id that is present with another value has failed
C22_Witness ==
    /\ LastCall("add")
    /\ Present(call.before, call.args[1].itemId)
    /\ get(call.before, call.args[1].itemId) # call.args[1].value
    /\ call.err # "none"
    /\ size(seqItems) = 2

\* C28: when buildTree is given a TreeNodeBlock for a group that is in the
\* tree, afterwards the group's label, visible and four anchor registers
\* are the block's (an anchor the block lacks clears the group's), while the
\* group's child sequence, every other group and rootText are unchanged.
C28_TreeNodeReplacesRegisters ==
    [][ (/\ nblocks' = nblocks + 1
         /\ ~lastBlock'.unreadable
         /\ isTreeNodeBlock(lastBlock')
         /\ TreeHas(nodes, lastBlock'.group.nodeId))
        => /\ bstatus' = "running"
           /\ rootText' = rootText
           /\ Len(nodes') = Len(nodes)
           /\ \A i \in 1..Len(nodes) :
                  /\ nodes'[i].k = nodes[i].k
                  /\ IF nodes[i].k = crdtIdToString(lastBlock'.group.nodeId)
                     THEN /\ nodes'[i].v.label = lastBlock'.group.label
                          /\ nodes'[i].v.visible = lastBlock'.group.visible
                          /\ nodes'[i].v.anchorId = lastBlock'.group.anchorId
                          /\ nodes'[i].v.anchorType = lastBlock'.group.anchorType
                          /\ nodes'[i].v.anchorThreshold = lastBlock'.group.anchorThreshold
                          /\ nodes'[i].v.anchorOriginX = lastBlock'.group.anchorOriginX
                          /\ nodes'[i].v.children = nodes[i].v.children
                          /\ nodes'[i].v.nodeId = nodes[i].v.nodeId
                     ELSE nodes'[i].v = nodes[i].v ]_vars

\* A TreeNodeBlock without anchors has been applied to a group that has
\* children, in a tree with another group
C28_Witness ==
    /\ bstatus = "running"
    /\ ~lastBlock.unreadable
    /\ isTreeNodeBlock(lastBlock)
    /\ lastBlock.group.anchorId = Null
    /\ TreeHas(nodes, lastBlock.group.nodeId)
    /\ TreeGet(nodes, lastBlock.group.nodeId).anchorId = Null
    /\ TreeGet(nodes, lastBlock.group.nodeId).children # <<>>
    /\ Len(nodes) > 1

(***************************************************************************)
(* Two readers stepped in turn.  Each TaggedBlockReader has its own        *)
(* DataStream (the constructor copies the bytes it is given) and its own   *)
(* currentBlock and _warnedAboutExtraData fields.                          *)
(***************************************************************************)
\* The blocks the slices are made of: a readable block, one with a byte
\* left unread, one of an unknown type, one with a non-zero reserved byte
PairFrames ==
    { Frame(5, 0, BlockType_MigrationInfo, <<31, 1, 2, 33, 1>>),
      Frame(6, 0, BlockType_MigrationInfo, <<31, 1, 2, 33, 1, 52>>),
      Frame(4, 0, 254, <<222, 173, 190, 239>>),
      Frame(5, 1, BlockType_MigrationInfo, <<31, 1, 2, 33, 1>>) }

PairBuffers ==
    {Concat(fs) : fs \in UNION {[1..n -> PairFrames] : n \in 0..MaxFrames}}

\* new TaggedBlockReader(data)
ReaderOver(b) == [buffer |-> b, r |-> NewReader, yielded |-> <<>>, status |-> "reading"]

\* A slip: one flag for all readers
WarnedFlagShared(rs, i) == \E j \in 1..Len(rs) : rs[j].r.warned

\* this._warnedAboutExtraData of reader i
WarnedFlag(rs, i) == rs[i].r.warned

\* What a call of readBlock makes of the reader rd, given the outcome x
AfterReadBlock(rd, x) ==
    IF x.err # "none" THEN [rd EXCEPT !.r = x.r, !.status = "error"]
    ELSE IF x.val = [kind |-> "null"] THEN [rd EXCEPT !.r = x.r, !.status = "done"]
    ELSE [rd EXCEPT !.r = x.r, !.yielded = Append(@, x.val)]

PairInit ==
    /\ WriterIdle
    /\ TopoIdle
    /\ TreeIdle
    /\ ReaderIdle
    /\ CallIdle
    /\ SeqIdle
    /\ \E b1 \in PairBuffers, b2 \in PairBuffers :
           readers = <<ReaderOver(b1), ReaderOver(b2)>>

\* readBlock(reader) on reader i
PairReadBlock ==
    \E i \in 1..2 :
        \E x \in {readBlock(readers[i].buffer,
                            [readers[i].r EXCEPT !.warned = WarnedFlag(readers, i)])} :
            /\ readers[i].status = "reading"
            /\ readers' = [readers EXCEPT ![i] = AfterReadBlock(@, x)]
            /\ UNCHANGED <<topoVars, treeVars, readerVars, callVars, seqVars, writerVars>>

PairNext == PairReadBlock

PairSpec == PairInit /\ [][PairNext]_vars

\* The reader rd run alone to its end
RECURSIVE Alone(_)
Alone(rd) ==
    IF rd.status # "reading" THEN rd
    ELSE Alone(AfterReadBlock(rd, readBlock(rd.buffer, rd.r)))

IsPrefix(s, t) == Len(s) <= Len(t) /\ s = SubSeq(t, 1, Len(s))

\* C23: readers do not interfere: whatever the interleaving of the
\* readBlock calls of two readers, each yields the blocks it yields when run
\* alone, ends as it ends alone, and emits its own warning at most once.
C23_ReadersIndependent ==
    \A i \in 1..Len(readers) :
        \E alone \in {Alone(ReaderOver(readers[i].buffer))} :
            /\ IsPrefix(readers[i].yielded, alone.yielded)
            /\ readers[i].r.warnings <= 1
            /\ readers[i].r.warnings <= alone.r.warnings
            /\ readers[i].status # "reading"
               => /\ readers[i].yielded = alone.yielded
                  /\ readers[i].status = alone.status
                  /\ readers[i].r.warnings = alone.r.warnings
                  /\ readers[i].r.position = alone.r.position

\* Both readers have finished, each has warned once, and their calls were
\* interleaved
C23_Witness ==
    /\ Len(readers) = 2
    /\ \A i \in 1..2 :
           /\ readers[i].status = "done"
           /\ readers[i].r.warnings = 1
           /\ Len(readers[i].yielded) = 2
    /\ readers[1].buffer # readers[2].buffer

(***************************************************************************)
(* Blocks decoded one at a time: a buffer that holds one block is read by  *)
(* readBlock, and a glyph range written by writeGlyphRange is read back by *)
(* readGlyphRange.                                                         *)
(***************************************************************************)
MaxFormats == 2

\* The bytes of a tag, of a tagged id, of a tagged int and of a sub-block
TagWire(index, tagType) == writeTag(<<>>, index, tagType).w

IdWire(index, part1, part2) ==
    TagWire(index, TagType_ID)
    \o writeCrdtId(<<>>, createCrdtId(NumOfInt(part1), NumOfInt(part2))).w

IntWire(index, n) == TagWire(index, TagType_Byte4) \o U32LE(n)

SubWire(index, bytes) == TagWire(index, TagType_Length4) \o U32LE(Len(bytes)) \o bytes

Float64Wire == <<0, 0, 0, 0, 0, 0, 240, 63>>

Rect1 ==
    createRectangle([kind |-> "float64", bytes |-> Float64Wire],
                    [kind |-> "float64", bytes |-> Float64Wire],
                    [kind |-> "float64", bytes |-> Float64Wire],
                    [kind |-> "float64", bytes |-> Float64Wire])

GlyphPool ==
    {createGlyphRange(start, length, text, 1, rectangles) :
        start \in {Null, [kind |-> "number", value |-> 0], [kind |-> "number", value |-> 5]},
        length \in 0..2,
        text \in {<<>>, <<97>>, <<97, 98>>},
        rectangles \in {<<>>, <<Rect1>>}}

\* The bytes writeGlyphRange writes for glyph
GlyphWire(glyph) == DataOf(writeGlyphRange(NewWriter, glyph).r)

ItemBlockTypes ==
    {BlockType_SceneGroupItem, BlockType_SceneGlyphItem,
     BlockType_SceneTombstoneItem, BlockType_SceneTextItem}

\* The value sub-block of an item block of the given type
ItemValueWire(blockType) ==
    SubWire(6, <<1>> \o
        (CASE blockType = BlockType_SceneGroupItem -> IdWire(2, 0, 11)
           [] blockType = BlockType_SceneGlyphItem ->
                  GlyphWire(createGlyphRange([kind |-> "number", value |-> 5], 2,
                                             <<97, 98>>, 1, <<>>))
           [] OTHER -> <<>>))

\* A scene item block on the wire, with or without its value sub-block
ItemFrame(blockType, deletedLength, hasValue) ==
    With(IdWire(1, 0, 1) \o IdWire(2, 1, 2) \o IdWire(3, 0, 0) \o IdWire(4, 0, 0)
         \o IntWire(5, deletedLength)
         \o (IF hasValue THEN ItemValueWire(blockType) ELSE <<>>),
         LAMBDA payload : Frame(Len(payload), 0, blockType, payload))

\* A text format entry: the character id, the timestamp and the sub-block
\* of the two bytes magic and code
FormatWire(f) ==
    <<1, 16>> \o IdWire(1, 1, 15) \o SubWire(2, <<f.magic, f.code>>)

FormatPool == {[magic |-> 17, code |-> 1], [magic |-> 17, code |-> 2], [magic |-> 16, code |-> 1]}

FormatLists == UNION {[1..n -> FormatPool] : n \in 0..MaxFormats}

TextItemWire ==
    SubWire(0, IdWire(2, 1, 16) \o IdWire(3, 0, 0) \o IdWire(4, 0, 0) \o IntWire(5, 0)
               \o SubWire(6, <<1, 1, 97>>))

\* A RootText block on the wire with numItems text items and the formats fs
RootTextFrame(numItems, fs) ==
    With(IdWire(1, 0, 0)
         \o SubWire(2,
                SubWire(1, SubWire(1, <<numItems>>
                                      \o Concat([i \in 1..numItems |-> TextItemWire])))
                \o SubWire(2, SubWire(1, <<Len(fs)>>
                                         \o Concat([i \in 1..Len(fs) |-> FormatWire(fs[i])]))))
         \o SubWire(3, Float64Wire \o Float64Wire)
         \o TagWire(4, TagType_Byte4) \o <<0, 0, 128, 63>>,
         LAMBDA payload : Frame(Len(payload), 0, BlockType_RootText, payload))

DecodeBuffers ==
    {ItemFrame(t, n, v) : t \in ItemBlockTypes, n \in 0..2, v \in BOOLEAN}
    \cup {RootTextFrame(n, fs) : n \in 0..1, fs \in FormatLists}

DecodeInit ==
    /\ WriterIdle
    /\ PairIdle
    /\ SeqIdle
    /\ TopoIdle
    /\ TreeIdle
    /\ buffer \in DecodeBuffers \cup {<<>>}
    /\ position = NewReader.position
    /\ currentBlock = NewReader.currentBlock
    /\ warnedAboutExtraData = NewReader.warned
    /\ warnings = NewReader.warnings
    /\ yielded = <<>>
    /\ rstatus = "decode"
    /\ call = [op |-> "none"]
    /\ written = NoWrite
    /\ ncalls = 0

\* readBlock(reader) on a buffer that holds one block
DecodeReadBlock ==
    /\ rstatus = "decode"
    /\ ncalls = 0
    /\ buffer # <<>>
    /\ Called("readBlock", <<>>, readBlock(buffer, CurrentReader))
    /\ UNCHANGED <<buffer, written>>
    /\ UNCHANGED notCallVars

\* writer = new TaggedBlockWriter(); writeGlyphRange(writer, glyph); then
\* readGlyphRange(new TaggedBlockReader(writer.data.getBytes()))
DecodeGlyphRange ==
    \E glyph \in GlyphPool :
        \E x \in {writeGlyphRange(NewWriter, glyph)} :
            /\ rstatus = "decode"
            /\ ncalls = 0
            /\ buffer = <<>>
            /\ buffer' = DataOf(x.r)
            /\ written' = [kind |-> "glyph", value |-> glyph, err |-> x.err]
            /\ Called("readGlyphRange", <<>>, readGlyphRange(DataOf(x.r), CurrentReader))
            /\ UNCHANGED notCallVars

DecodeNext == DecodeReadBlock \/ DecodeGlyphRange

DecodeSpec == DecodeInit /\ [][DecodeNext]_vars

\* C25: a glyph range written with a start and read back has the start and
\* the length it was written with, whatever the length (0 included); one
\* written without a start is read with the length of its text.
C25_GlyphRangeLength ==
    (ReadBack("readGlyphRange", "glyph") /\ call.err = "none")
    => /\ written.value.start # Null
          => /\ call.val.start = written.value.start
             /\ call.val.length = written.value.length
       /\ written.value.start = Null
          => call.val.length = Len(call.val.text)

\* C26: a RootText block with a format entry whose sub-block does not open
\* with the magic byte 17 is not decoded: readBlock gives an UnreadableBlock.
C26_MagicAsserted ==
    \A n \in 0..1, fs \in FormatLists :
        (/\ LastCall("readBlock")
         /\ buffer = RootTextFrame(n, fs)
         /\ \E i \in 1..Len(fs) : fs[i].magic # TextFormatMagic)
        => call.val.unreadable

\* C27: the item of every scene item block readBlock produces has no value
\* exactly when its deletedLength is above 0.
C27_ValueAbsentIffDeleted ==
    (/\ LastCall("readBlock")
     /\ call.err = "none"
     /\ call.val.blockType \in ItemBlockTypes
     /\ ~call.val.unreadable)
    => (call.val.item.value = Null <=> call.val.item.deletedLength > 0)

(***************************************************************************)
(* The writer in use: blocks and sub-blocks are started, bytes are written *)
(* to this.data, and the closures returned are called, any of them at any  *)
(* time.  wlog keeps what was done, so that a reader can read it back.     *)
(***************************************************************************)
MaxWrites == 6

BlockTypePool == {1, 200}

VersionPool == {<<1, 2>>}

\* A one-byte tag and a two-byte tag
SubblockIndexes == {1, 16}

PayloadBytes == {7}

CurrentWriter == [streams |-> wstreams, data |-> wdata, inBlock |-> inBlock]

WriterInit ==
    /\ TopoIdle
    /\ TreeIdle
    /\ ReaderIdle
    /\ SeqIdle
    /\ PairIdle
    /\ wstreams = NewWriter.streams
    /\ wdata = NewWriter.data
    /\ inBlock = NewWriter.inBlock
    /\ ends = <<>>
    /\ wlog = <<>>
    /\ call = [op |-> "none"]
    /\ written = NoWrite
    /\ ncalls = 0

\* The call op(args) was made on the writer and had the outcome x
WriterCalled(op, args, x) ==
    /\ call' = [op |-> op, args |-> args, before |-> CurrentWriter, err |-> x.err]
    /\ wstreams' = x.r.streams
    /\ wdata' = x.r.data
    /\ inBlock' = x.r.inBlock
    /\ ncalls' = ncalls + 1
    /\ UNCHANGED <<written, topoVars, treeVars, readerVars, seqVars, pairVars>>

\* end = writer.startBlock(blockType, minVersion, currentVersion)
WriterStartBlock ==
    \E blockType \in BlockTypePool, v \in VersionPool :
        \E x \in {startBlock(CurrentWriter, blockType, v[1], v[2])} :
            /\ ncalls < MaxWrites
            /\ WriterCalled("startBlock", <<blockType, v[1], v[2]>>, x)
            /\ ends' = IF x.err = "none" THEN Append(ends, x.val) ELSE ends
            /\ wlog' = IF x.err = "none"
                       THEN Append(wlog, [op |-> "start", end |-> Len(ends) + 1])
                       ELSE wlog

\* end = writer.startSubblock(index)
WriterStartSubblock ==
    \E index \in SubblockIndexes :
        \E x \in {startSubblock(CurrentWriter, index)} :
            /\ ncalls < MaxWrites
            /\ WriterCalled("startSubblock", <<index>>, x)
            /\ ends' = Append(ends, x.val)
            /\ wlog' = Append(wlog, [op |-> "start", end |-> Len(ends) + 1])

\* writer.data.writeUint8(value)
WriterWriteUint8 ==
    \E value \in PayloadBytes :
        \E x \in {OnData(CurrentWriter,
                         writeUint8(DataOf(CurrentWriter), NumOfInt(value)))} :
            /\ ncalls < MaxWrites
            /\ WriterCalled("writeUint8", <<value>>, x)
            /\ ends' = ends
            /\ wlog' = Append(wlog, [op |-> "byte", value |-> value])

\* end(), for any closure the writer has returned
WriterEnd ==
    \E i \in 1..Len(ends) :
        \E x \in {IF ends[i].kind = "endBlock" THEN endBlockCallback(CurrentWriter, ends[i])
                  ELSE endSubblockCallback(CurrentWriter, ends[i])} :
            /\ ncalls < MaxWrites
            /\ WriterCalled("end", <<i>>, x)
            /\ ends' = ends
            /\ wlog' = Append(wlog, [op |-> "end", end |-> i])

WriterNext ==
    \/ WriterStartBlock
    \/ WriterStartSubblock
    \/ WriterWriteUint8
    \/ WriterEnd

WriterSpec == WriterInit /\ [][WriterNext]_vars

\* The closures started and not yet ended after the first n steps of the
\* log, innermost last; <<0>> once an end did not close the innermost one
RECURSIVE OpenAfter(_, _)
OpenAfter(log, n) ==
    IF n = 0 THEN <<>>
    ELSE With(OpenAfter(log, n - 1), LAMBDA open :
             IF open = <<0>> THEN open
             ELSE IF log[n].op = "start" THEN Append(open, log[n].end)
             ELSE IF log[n].op = "byte" THEN open
             ELSE IF open # <<>> /\ open[Len(open)] = log[n].end
                  THEN SubSeq(open, 1, Len(open) - 1)
             ELSE <<0>>)

\* Every closure was called once, innermost first, and none is left open
LifoNested(log) == OpenAfter(log, Len(log)) = <<>>

\* The reader reads back what the log says was written: at a start the
\* envelope or the sub-block tag, which must agree with what the writer was
\* given and with the bytes written within; at a byte the byte; at an end
\* endBlock or endSubblock.  val is the scopes open, innermost last; the read
\* fails with "mismatch" where the reader does not find what was written.
RECURSIVE ReadBackLog(_, _, _, _)
ReadBackLog(log, n, b, streams) ==
    IF n = 0 THEN Returned(NewReader, <<>>)
    ELSE Then(ReadBackLog(log, n - 1, b, streams), LAMBDA before :
         With(log[n], LAMBDA e :
             IF e.op = "byte"
             THEN Then(readUint8(b, before.r), LAMBDA x :
                      IF x.val # e.value THEN Threw(x.r, "mismatch")
                      ELSE Returned(x.r, before.val))
             ELSE IF e.op = "start" /\ ends[e.end].kind = "endBlock"
             THEN Then(TaggedBlockReader_readBlock(b, before.r), LAMBDA x :
                      IF \/ x.val = Null
                         \/ x.val.blockType # ends[e.end].blockType
                         \/ x.val.minVersion # ends[e.end].minVersion
                         \/ x.val.currentVersion # ends[e.end].currentVersion
                         \/ x.val.size # Len(streams[ends[e.end].blockData])
                      THEN Threw(x.r, "mismatch")
                      ELSE Returned(x.r, Append(before.val, x.val)))
             ELSE IF e.op = "start"
             THEN Then(readSubblock(b, before.r, ends[e.end].index), LAMBDA x :
                      IF x.val.size # Len(streams[ends[e.end].blockData])
                      THEN Threw(x.r, "mismatch")
                      ELSE Returned(x.r, Append(before.val, x.val)))
             ELSE With(before.val[Len(before.val)], LAMBDA scope :
                  Then(IF ends[e.end].kind = "endBlock" THEN endBlock(b, before.r)
                       ELSE endSubblock(b, before.r, scope), LAMBDA x :
                      Returned(x.r, SubSeq(before.val, 1, Len(before.val) - 1))))))

\* C24: what was written with blocks and sub-blocks ended innermost first
\* reads back: readBlock gives the block type, versions and payload size
\* written, each readSubblock the size of what was written within, and no
\* endSubblock or endBlock finds an overflow or unread bytes; the reader ends
\* at the end of the output.
C24_FramingRoundTrips ==
    LifoNested(wlog)
    => \E x \in {ReadBackLog(wlog, Len(wlog), wstreams[1], wstreams)} :
           /\ x.err = "none"
           /\ x.r.warnings = 0
           /\ x.r.position = Len(wstreams[1])
           /\ x.r.currentBlock = Null

\* A block with a byte and a sub-block within, which holds a byte, all ended
C24_Witness ==
    /\ LifoNested(wlog)
    /\ Len(wlog) = MaxWrites
    /\ \E i, j \in 1..Len(ends) :
           /\ ends[i].kind = "endBlock"
           /\ ends[j].kind = "endSubblock"
           /\ ends[j].previousData = ends[i].blockData
           /\ wstreams[ends[j].blockData] # <<>>
           /\ Len(wstreams[ends[i].blockData]) > Len(wstreams[ends[j].blockData]) + 5

\* A closure of startBlock that has not been called
BlockOpen(es, log) ==
    \E i \in 1..Len(es) :
        /\ es[i].kind = "endBlock"
        /\ \A n \in 1..Len(log) : ~(log[n].op = "end" /\ log[n].end = i)

\* No closure has been called out of turn: each end so far closed the
\* innermost block or sub-block open, which had not been ended before
WellNested(log) == OpenAfter(log, Len(log)) # <<0>>

\* What a block or sub-block ended at the top level puts into the output
FrameOf(end, payload) ==
    IF end.kind = "endBlock"
    THEN U32LE(Len(payload)) \o <<0, end.minVersion, end.currentVersion, end.blockType>>
         \o payload
    ELSE TagWire(end.index, TagType_Length4) \o U32LE(Len(payload)) \o payload

\* The output expected after the first n steps of the log: the bytes
\* written and the blocks and sub-blocks ended at the top level, in the order
\* of the writes and of the calls of the end callbacks
RECURSIVE TopLevelOutput(_, _, _)
TopLevelOutput(log, n, streams) ==
    IF n = 0 THEN <<>>
    ELSE TopLevelOutput(log, n - 1, streams)
         \o With(OpenAfter(log, n - 1), LAMBDA open :
                IF log[n].op = "byte" /\ open = <<>> THEN <<log[n].value>>
                ELSE IF log[n].op = "end" /\ Len(open) = 1
                     THEN FrameOf(ends[log[n].end], streams[ends[log[n].end].blockData])
                ELSE <<>>)

\* A startBlock made while a block is open fails and changes nothing; one
\* made when no block is open succeeds
StartBlockGuarded ==
    /\ BlockOpen(ends, wlog)
       => /\ call'.err = "UnexpectedBlockError"
          /\ wdata' = wdata
          /\ inBlock' = inBlock
          /\ wstreams' = wstreams
    /\ ~BlockOpen(ends, wlog) => call'.err = "none"

\* C29 as stated: the writer never has two blocks open: a startBlock made
\* while a block started earlier has not been ended fails with
\* UnexpectedBlock and leaves this.data and _inBlock as they were, and one
\* made after the blocks started have been ended succeeds, whatever calls of
\* end callbacks came before.
C29_OneBlockOpen ==
    [][call'.op = "startBlock" => StartBlockGuarded]_vars

\* C29, as long as every end callback is called once and innermost first:
\* a startBlock made while a block is open fails with UnexpectedBlock and
\* leaves this.data, _inBlock and the streams as they were, one made when
\* the blocks started have been ended succeeds, and the output holds the
\* blocks in the order their end callbacks ran.
C29_OneBlockOpenWellNested ==
    /\ [](WellNested(wlog)
          => wstreams[1] = TopLevelOutput(wlog, Len(wlog), wstreams))
    /\ [][(call'.op = "startBlock" /\ WellNested(wlog)) => StartBlockGuarded]_vars

\* A block was written and ended, a second one started, and a third
\* startBlock refused; the second was then ended after the first in the output
C29_Witness ==
    /\ WellNested(wlog)
    /\ Len(ends) = 2
    /\ \A i \in 1..2 : ends[i].kind = "endBlock"
    /\ ends[1].blockType # ends[2].blockType
    /\ Len(wlog) = 5
    /\ wlog[2].op = "byte"
    /\ <<wlog[1], wlog[3], wlog[4], wlog[5]>>
       = <<[op |-> "start", end |-> 1], [op |-> "end", end |-> 1],
           [op |-> "start", end |-> 2], [op |-> "end", end |-> 2]>>
    /\ ncalls = Len(wlog) + 1
    /\ call.op = "end"
    /\ wstreams[1] = FrameOf(ends[1], <<wlog[2].value>>) \o FrameOf(ends[2], <<>>)

(***************************************************************************)
(* Text items expanded into characters (rmc, text.ts)                      *)
(***************************************************************************)
MaxRun == 3

\* A string value and a formatting code
Str(chars) == [kind |-> "string", value |-> chars]

Code(n) == [kind |-> "number", code |-> n]

\* A variant in which every item of a run keeps the neighbours of the original
expandRunUnlinked(item, chars, deletedLength) ==
    [i \in 1..Len(chars) |->
        createCrdtSequenceItem(createCrdtId(item.itemId.part1, item.itemId.part2 + i - 1),
                               item.leftId, item.rightId, deletedLength, Str(chars[i]))]

\* The loop of expandTextItem and the yield after it: one item per element
\* of chars, the items yielded so far in run
RECURSIVE expandLoop(_, _, _, _, _, _)
expandLoop(item, chars, deletedLength, itemId, leftId, run) ==
    IF Len(run) < Len(chars) - 1
    THEN With(createCrdtId(itemId.part1, itemId.part2 + 1), LAMBDA rightId :
             expandLoop(item, chars, deletedLength, rightId, itemId,
                        Append(run, createCrdtSequenceItem(itemId, leftId, rightId,
                                        deletedLength, Str(chars[Len(run) + 1])))))
    ELSE Append(run, createCrdtSequenceItem(itemId, leftId, item.rightId,
                         deletedLength, Str(chars[Len(chars)])))

expandRun(item, chars, deletedLength) ==
    expandLoop(item, chars, deletedLength, item.itemId, item.leftId, <<>>)

\* The items the generator yields; a character is the string of its code unit
expandTextItem(item) ==
    IF item.deletedLength > 0
    THEN expandRun(item, [i \in 1..item.deletedLength |-> <<>>], 1)
    ELSE IF item.value.kind = "number" THEN <<item>>
    ELSE IF Len(item.value.value) = 0 THEN <<>>
    ELSE expandRun(item, [i \in 1..Len(item.value.value) |-> <<item.value.value[i]>>], 0)

RECURSIVE expandTextItems(_)
expandTextItems(its) ==
    IF its = <<>> THEN <<>>
    ELSE expandTextItem(its[1]) \o expandTextItems(Tail(its))

\* charItems.add(item) for each item in turn; ok is FALSE once an add threw
RECURSIVE addAll(_, _)
addAll(seq, its) ==
    IF its = <<>> THEN [ok |-> TRUE, seq |-> seq]
    ELSE With(add(seq, its[1]), LAMBDA a :
             IF ~a.ok THEN a ELSE addAll(a.seq, Tail(its)))

\* parseTextDocument up to the ordered keys: the items of text.items
\* expanded into charItems, and the keys of charItems in order
charKeys(its) ==
    With(addAll(<<>>, expandTextItems(sequenceItems(CrdtSequence(its)))), LAMBDA a :
        IF ~a.ok THEN [status |-> "error", ids |-> <<>>] ELSE keys(a.seq))

TextItemPool ==
    {createCrdtSequenceItem(id, left, right, n, value) :
        id \in {createCrdtId(1, 9), createCrdtId(2, 5)},
        left \in {END_MARKER, createCrdtId(1, 3)},
        right \in {END_MARKER, createCrdtId(1, 20)},
        n \in 0..MaxRun,
        value \in {Str(<<>>), Str(<<97, 98, 99>>), Code(1)}}

\* The deleted run of the documents: (1, 9) with n deleted characters
RunItem(n, left, right) ==
    createCrdtSequenceItem(createCrdtId(1, 9), left, right, n, Str(<<>>))

\* An item before the run and the items that may follow it: one after the
\* whole run, one after its last character, one after its first character
ItemBefore == createCrdtSequenceItem(createCrdtId(1, 3), END_MARKER, createCrdtId(1, 9), 0, Str(<<97>>))

ItemsAfter(n) ==
    {createCrdtSequenceItem(createCrdtId(1, 20), left, END_MARKER, 0, Str(<<98>>)) :
        left \in {END_MARKER, createCrdtId(1, 9), createCrdtId(1, 9 + n - 1)}}

Reversed(s) == [i \in 1..Len(s) |-> s[Len(s) + 1 - i]]

DocPool ==
    UNION {UNION {{doc, Reversed(doc)} :
                    doc \in {b \o <<RunItem(n, left, right)>> \o a :
                               b \in {<<>>, <<ItemBefore>>},
                               a \in {<<>>} \cup {<<y>> : y \in ItemsAfter(n)},
                               left \in {END_MARKER, createCrdtId(1, 3)},
                               right \in {END_MARKER, createCrdtId(1, 20)}}} :
           n \in 1..MaxRun}

ExpandInit ==
    /\ TopoIdle
    /\ TreeIdle
    /\ ReaderIdle
    /\ SeqIdle
    /\ PairIdle
    /\ WriterIdle
    /\ CallIdle

\* [...expandTextItem(item)]
ExpandTextItem ==
    \E item \in TextItemPool :
        /\ ncalls = 0
        /\ call' = [op |-> "expandTextItem", args |-> <<item>>,
                    val |-> expandTextItem(item)]
        /\ ncalls' = ncalls + 1
        /\ UNCHANGED <<written, topoVars, treeVars, readerVars, seqVars, pairVars,
                       writerVars>>

\* parseTextDocument(text), up to its ordered keys
ExpandDocument ==
    \E doc \in DocPool :
        /\ ncalls = 0
        /\ call' = [op |-> "parseTextDocument", args |-> <<doc>>,
                    val |-> charKeys(doc)]
        /\ ncalls' = ncalls + 1
        /\ UNCHANGED <<written, topoVars, treeVars, readerVars, seqVars, pairVars,
                       writerVars>>

ExpandNext == ExpandTextItem \/ ExpandDocument

ExpandSpec == ExpandInit /\ [][ExpandNext]_vars

\* The id of the k-th character of the run that starts at id
RunId(id, k) == createCrdtId(id.part1, id.part2 + k - 1)

\* C30: a text item (a, c) with deleted_length n > 0 expands to n tombstones
\* of one character each with the ids (a, c) .. (a, c + n - 1) and the empty
\* string for value; the first has the left_id of the item, the last its
\* right_id, and the others point to their neighbours in the run.  In the
\* keys of the document the run stands in ascending order of counter, after
\* the item its left_id names and before the item its right_id names.
C30_DeletedRunExpands ==
    /\ (LastCall("expandTextItem") /\ call.args[1].deletedLength > 0)
       => \E item \in {call.args[1]} :
              /\ Len(call.val) = item.deletedLength
              /\ \A k \in 1..Len(call.val) :
                     /\ call.val[k].itemId = RunId(item.itemId, k)
                     /\ call.val[k].deletedLength = 1
                     /\ call.val[k].value = Str(<<>>)
                     /\ call.val[k].leftId
                        = IF k = 1 THEN item.leftId ELSE RunId(item.itemId, k - 1)
                     /\ call.val[k].rightId
                        = IF k = Len(call.val) THEN item.rightId
                          ELSE RunId(item.itemId, k + 1)
    /\ LastCall("parseTextDocument")
       => \E doc \in {call.args[1]} :
              \A d \in 1..Len(doc) :
                  doc[d].deletedLength > 0
                  => /\ call.val.status = "done"
                     /\ \A k \in 1..doc[d].deletedLength :
                            \E i \in 1..Len(call.val.ids) :
                                call.val.ids[i] = RunId(doc[d].itemId, k)
                     /\ \A k \in 1..(doc[d].deletedLength - 1) :
                            Before(call.val.ids, RunId(doc[d].itemId, k),
                                   RunId(doc[d].itemId, k + 1))
                     /\ \A y \in 1..Len(doc) :
                            /\ doc[y].itemId = doc[d].leftId
                               => Before(call.val.ids, doc[y].itemId, doc[d].itemId)
                            /\ doc[y].itemId = doc[d].rightId
                               => Before(call.val.ids,
                                         RunId(doc[d].itemId, doc[d].deletedLength),
                                         doc[y].itemId)

\* A run of MaxRun deleted characters between two items was expanded and
\* put in order
C30_Witness ==
    /\ LastCall("parseTextDocument")
    /\ Len(call.args[1]) = 3
    /\ call.args[1][2].deletedLength = MaxRun
    /\ call.val.status = "done"
    /\ Len(call.val.ids) = MaxRun + 2

====
